---- MODULE Spec2Model ----
(***************************************************************************)
(* A model of the javiagens REST backend: the authorization middleware,    *)
(* the validation layer, the sequential transaction-id allocator and the   *)
(* route handlers of transactions, categories, subcategories and users.    *)
(*                                                                         *)
(* Every request is a process held in a slot of `req`.  Receiving a        *)
(* request runs the middleware chain of its route (verifyToken, the role   *)
(* gate, the validators); after that each datastore statement of the       *)
(* handler is one atomic step, so that handlers of concurrent requests     *)
(* interleave between statements exactly as awaits allow.                  *)
(***************************************************************************)
EXTENDS Integers, Sequences, FiniteSets, TLC

VARIABLES
  users,          \* table users:    id -> [email, password_hash]
  profiles,       \* table profiles: id -> [email, role, status]
  categories,     \* table categories: id -> [name]
  subcategories,  \* table subcategories: id -> [name, category_id]
  transactions,   \* table transactions: sequence of rows, in insertion order
  files,          \* names of the files in the uploads directory
  uuidCount,      \* how many uuidv4() values have been drawn
  now,            \* the clock jwt.verify compares a token's exp against
  req,            \* request slot -> the request being served and its position
  started,        \* number of requests received so far
  assigned,       \* history: numeric suffixes of the ids given to stored transactions
  revoked,        \* history: users whose deactivation or deletion was committed
  lastGen,        \* result of the last direct call of generateNextTransactionId
  call,           \* a direct call of a query builder: its arguments and its result
  pool            \* the connection pool: connections checked out and not yet released

vars == <<users, profiles, categories, subcategories, transactions, files,
          uuidCount, now, req, started, assigned, revoked, lastGen, call, pool>>

dbVars == <<users, profiles, categories, subcategories, transactions, files, uuidCount>>

(***************************************************************************)
(* Bounds of the model.                                                    *)
(***************************************************************************)
MaxStarts == 3      \* requests received in one behaviour
MaxUuid == 2        \* uuidv4() values drawn in one behaviour
MaxTime == 2        \* last clock value
MaxEntries == 2     \* entries of an object passed to a query builder
MaxRows == 4        \* transactions stored when a list is requested
ConnectionLimit == 10   \* connectionLimit of the pool

Slots == {"r1", "r2"}   \* requests in flight at the same time

(***************************************************************************)
(* Identifiers.  An identifier is the pair of its textual format and a     *)
(* number: "uuid" is what uuidv4() returns and isUUID() accepts, "cat" is  *)
(* cat-<word>-<n>, "sub" is sub-<word>-<n>, "text" is any other string.    *)
(***************************************************************************)
Null == [fmt |-> "null", n |-> 0]
Undef == [fmt |-> "undefined", n |-> 0]
Uuid(k) == [fmt |-> "uuid", n |-> k]
CatSlug(k) == [fmt |-> "cat", n |-> k]
SubSlug(k) == [fmt |-> "sub", n |-> k]
Text(k) == [fmt |-> "text", n |-> k]
\* the decimal text of an integer, as a query parameter carries it
IntStr(k) == [fmt |-> "int", n |-> k]
\* an ISO 8601 date, by the number of its day
IsoDate(d) == [fmt |-> "date", n |-> d]

\* JavaScript truthiness of an identifier-valued field
Truthy(x) == x.fmt \notin {"null", "undefined", "empty"}
EmptyStr == [fmt |-> "empty", n |-> 0]

\* value || null
OrNull(x) == IF Truthy(x) THEN x ELSE Null

(***************************************************************************)
(* Errors and the error handler.  An error is its name, its code and its   *)
(* statusCode (0 and "" stand for undefined/null), and its details (the    *)
(* empty sequence stands for null).                                        *)
(***************************************************************************)
AppError(statusCode, code) ==
  [name |-> "Error", code |-> code, statusCode |-> statusCode, details |-> <<>>]

\* an error thrown by the mysql2 driver carries the server's error code
DriverError(code) == [name |-> "Error", code |-> code, statusCode |-> 0, details |-> <<>>]

NoError == [name |-> "", code |-> "", statusCode |-> 0, details |-> <<>>]

\* the translations of errorHandler that follow the one of ER_DUP_ENTRY
TranslateRest(err, e1) ==
  LET e2 == IF err.code = "ER_NO_REFERENCED_ROW_2" THEN AppError(400, "FOREIGN_KEY_CONSTRAINT") ELSE e1
      e3 == IF err.code = "ER_PARSE_ERROR" THEN AppError(500, "DATABASE_ERROR") ELSE e2
      e4 == IF err.name = "JsonWebTokenError" THEN AppError(401, "INVALID_TOKEN") ELSE e3
      e5 == IF err.name = "TokenExpiredError" THEN AppError(401, "TOKEN_EXPIRED") ELSE e4
      e6 == IF err.name = "ValidationError" THEN AppError(400, "VALIDATION_ERROR") ELSE e5
      e7 == IF err.code = "LIMIT_FILE_SIZE" THEN AppError(400, "FILE_TOO_LARGE") ELSE e6
      e8 == IF err.code = "LIMIT_UNEXPECTED_FILE" THEN AppError(400, "UNEXPECTED_FILE") ELSE e7
  IN [status |-> IF e8.statusCode # 0 THEN e8.statusCode ELSE 500,
      code |-> IF e8.code # "" THEN e8.code ELSE "INTERNAL_ERROR",
      details |-> e8.details]

\* an error handler without the translation of ER_DUP_ENTRY
ErrorHandlerNoDuplicateEntry(err) == TranslateRest(err, err)

\* errorHandler: the status and code of the response it sends
ErrorHandler(err) ==
  TranslateRest(err, IF err.code = "ER_DUP_ENTRY" THEN AppError(409, "DUPLICATE_ENTRY") ELSE err)

\* error.message after the translations of errorHandler, or the default text
ErrorMessage(err) ==
  LET m1 == IF err.code = "ER_DUP_ENTRY" THEN "Duplicate entry. Resource already exists."
            ELSE err.message
      m2 == IF err.code = "ER_NO_REFERENCED_ROW_2" THEN "Referenced resource does not exist." ELSE m1
      m3 == IF err.code = "ER_PARSE_ERROR" THEN "Database query error." ELSE m2
      m4 == IF err.name = "JsonWebTokenError" THEN "Invalid token." ELSE m3
      m5 == IF err.name = "TokenExpiredError" THEN "Token expired." ELSE m4
      m6 == IF err.name = "ValidationError" THEN err.errors ELSE m5
      m7 == IF err.code = "LIMIT_FILE_SIZE" THEN "File too large." ELSE m6
      m8 == IF err.code = "LIMIT_UNEXPECTED_FILE" THEN "Unexpected file field." ELSE m7
  IN IF m8 # "" THEN m8 ELSE "Internal Server Error"

\* the body errorHandler sends with res.status(statusCode).json(...); a stack of
\* "" stands for a body without that key
ErrorBody(err, env) ==
  [status |-> ErrorHandler(err).status, success |-> FALSE, error |-> ErrorMessage(err),
   code |-> ErrorHandler(err).code, details |-> ErrorHandler(err).details,
   stack |-> IF env = "development" THEN err.stack ELSE ""]

\* errorHandler called with `err` under NODE_ENV = env (and, beside it, with
\* `other` under the same NODE_ENV)
HandleError ==
  /\ call.fn = "errorHandler"
  /\ call' = [fn |-> "res.json", err |-> call.err, other |-> call.other, env |-> call.env,
              body |-> ErrorBody(call.err, call.env),
              otherBody |-> ErrorBody(call.other, call.env)]
  /\ UNCHANGED <<dbVars, now, req, started, assigned, revoked, lastGen, pool>>

(***************************************************************************)
(* Tokens and the Authorization header.                                    *)
(***************************************************************************)
\* a token signed with JWT_SECRET, as generateToken makes it
SignedToken(userId, type, exp) ==
  [form |-> "jwt", sigOk |-> TRUE, userId |-> userId, type |-> type, exp |-> exp]

\* a well-formed token whose signature does not verify
ForgedToken(userId) ==
  [form |-> "jwt", sigOk |-> FALSE, userId |-> userId, type |-> "access", exp |-> MaxTime + 1]

\* a string that is no JWT at all
GarbageToken == [form |-> "garbage", sigOk |-> FALSE, userId |-> Null, type |-> "", exp |-> 0]

\* the empty string left of "Bearer " by substring(7)
EmptyToken == [form |-> "empty", sigOk |-> FALSE, userId |-> Null, type |-> "", exp |-> 0]

NoHeader == [scheme |-> "none", token |-> EmptyToken]
BasicHeader == [scheme |-> "Basic", token |-> GarbageToken]
Bearer(token) == [scheme |-> "Bearer", token |-> token]

\* jwt.verify(token, secret): the decoded payload, or the error it throws
JwtVerify(token, t) ==
  IF token.form # "jwt" \/ ~token.sigOk
    THEN [name |-> "JsonWebTokenError", userId |-> Null, type |-> ""]
    ELSE IF t >= token.exp
      THEN [name |-> "TokenExpiredError", userId |-> Null, type |-> ""]
      ELSE [name |-> "payload", userId |-> token.userId, type |-> token.type]

\* no call made
NoCall == [fn |-> ""]

NoUser == [id |-> Null, role |-> ""]

\* the lookup of verifyToken without its condition on p.status
ActiveUserRowsNoStatus(userId) ==
  IF userId \in DOMAIN users /\ userId \in DOMAIN profiles
    THEN {[id |-> userId, role |-> profiles[userId].role]} ELSE {}

\* SELECT ... FROM users u JOIN profiles p ON u.id = p.id WHERE u.id = ? AND p.status = 1
ActiveUserRows(userId) ==
  IF userId \in DOMAIN users /\ userId \in DOMAIN profiles /\ profiles[userId].status = 1
    THEN {[id |-> userId, role |-> profiles[userId].role]} ELSE {}

Rejected(err) == [ok |-> FALSE, err |-> err, user |-> NoUser]
Passed(user) == [ok |-> TRUE, err |-> NoError, user |-> user]

\* verifyToken without `if (!token)`
VerifyTokenNoEmptyCheck(hdr) ==
  IF hdr.scheme # "Bearer" THEN Rejected(AppError(401, "NO_TOKEN"))
  ELSE LET decoded == JwtVerify(hdr.token, now) IN
     IF decoded.name = "JsonWebTokenError" THEN Rejected(AppError(401, "INVALID_TOKEN"))
     ELSE IF decoded.name = "TokenExpiredError" THEN Rejected(AppError(401, "TOKEN_EXPIRED"))
     ELSE LET rows == ActiveUserRows(decoded.userId) IN
        IF rows = {} THEN Rejected(AppError(401, "USER_NOT_FOUND"))
        ELSE Passed(CHOOSE u \in rows : TRUE)

\* verifyToken turning away a token whose payload is not of type access
VerifyTokenAccessOnly(hdr) ==
  IF hdr.scheme # "Bearer" THEN Rejected(AppError(401, "NO_TOKEN"))
  ELSE IF hdr.token.form = "empty" THEN Rejected(AppError(401, "NO_TOKEN"))
  ELSE LET decoded == JwtVerify(hdr.token, now) IN
     IF decoded.name = "JsonWebTokenError" THEN Rejected(AppError(401, "INVALID_TOKEN"))
     ELSE IF decoded.name = "TokenExpiredError" THEN Rejected(AppError(401, "TOKEN_EXPIRED"))
     ELSE IF decoded.type # "access" THEN Rejected(AppError(401, "INVALID_TOKEN"))
     ELSE LET rows == ActiveUserRows(decoded.userId) IN
        IF rows = {} THEN Rejected(AppError(401, "USER_NOT_FOUND"))
        ELSE Passed(CHOOSE u \in rows : TRUE)

\* verifyToken: rejects the request or attaches req.user
VerifyToken(hdr) ==
  IF hdr.scheme # "Bearer" THEN Rejected(AppError(401, "NO_TOKEN"))
  ELSE IF hdr.token.form = "empty" THEN Rejected(AppError(401, "NO_TOKEN"))
  ELSE LET decoded == JwtVerify(hdr.token, now) IN
     IF decoded.name = "JsonWebTokenError" THEN Rejected(AppError(401, "INVALID_TOKEN"))
     ELSE IF decoded.name = "TokenExpiredError" THEN Rejected(AppError(401, "TOKEN_EXPIRED"))
     ELSE LET rows == ActiveUserRows(decoded.userId) IN
        IF rows = {} THEN Rejected(AppError(401, "USER_NOT_FOUND"))
        ELSE Passed(CHOOSE u \in rows : TRUE)

\* a gate that also lets the manager through
RequireAdminAlsoManager(user) ==
  IF user = NoUser THEN Rejected(AppError(401, "AUTH_REQUIRED"))
  ELSE IF user.role \notin {"administrador", "gerente"}
    THEN Rejected(AppError(403, "ADMIN_REQUIRED"))
  ELSE Passed(user)

\* requireAdmin
RequireAdmin(user) ==
  IF user = NoUser THEN Rejected(AppError(401, "AUTH_REQUIRED"))
  ELSE IF user.role # "administrador" THEN Rejected(AppError(403, "ADMIN_REQUIRED"))
  ELSE Passed(user)

\* requireAdminOrManager
RequireAdminOrManager(user) ==
  IF user = NoUser THEN Rejected(AppError(401, "AUTH_REQUIRED"))
  ELSE IF user.role \notin {"administrador", "gerente"}
    THEN Rejected(AppError(403, "INSUFFICIENT_PERMISSIONS"))
  ELSE Passed(user)

(***************************************************************************)
(* Requests.                                                               *)
(***************************************************************************)
\* a transaction id: the text before the digits and the digits after it
TxnId(digits) == [prefix |-> "txn-", digits |-> digits]
NoTxnId == [prefix |-> "", digits |-> <<>>]

EmptyBody ==
  [name |-> "undefined", category_id |-> Undef, subcategory_id |-> Undef,
   amount |-> 0, type |-> "undefined", comprovativo_url |-> Undef,
   role |-> "undefined", status |-> "undefined", phone |-> "undefined",
   newPassword |-> "undefined", email |-> "undefined", password |-> "undefined",
   description |-> "undefined", date |-> Undef, page |-> Undef, limit |-> Undef,
   mimetype |-> "undefined", refreshToken |-> EmptyToken,
   currentPassword |-> "undefined", confirmPassword |-> "undefined"]

\* a request as it arrives: route, Authorization header, :id parameter and body
Request(op, hdr, id, txnId, body) ==
  [op |-> op, hdr |-> hdr, id |-> id, txnId |-> txnId, body |-> body,
   pc |-> "idle", user |-> NoUser, transactionId |-> NoTxnId, current |-> Null,
   userEmail |-> "", status |-> 0, code |-> "", err |-> "",
   token |-> EmptyToken, refreshToken |-> EmptyToken, details |-> <<>>,
   data |-> <<>>, pagination |-> [page |-> 0, limit |-> 0, total |-> 0, totalPages |-> 0],
   queries |-> <<>>, pending |-> <<>>, caught |-> NoError, deleted |-> Null]

Idle == Request("", NoHeader, Null, NoTxnId, EmptyBody)

(***************************************************************************)
(* The validation layer: each validator yields the fields it rejects, in   *)
(* rule order; handleValidationErrors throws when there is any.            *)
(***************************************************************************)
ValidName(s) == s \notin {"undefined", "x"}

\* isUUID()
IsUUID(x) == x.fmt = "uuid"

\* validateUUID(paramName)
ValidateUUID(id) == IF IsUUID(id) THEN <<>> ELSE <<"id">>

\* validateTransactionId: matches(/^txn-\d+$/)
ValidateTransactionId(txnId) ==
  IF txnId.prefix = "txn-" /\ Len(txnId.digits) >= 1 THEN <<>> ELSE <<"id">>

\* validateTransaction
ValidateTransaction(b) ==
  (IF b.amount >= 1 THEN <<>> ELSE <<"amount">>)
  \o (IF b.type \in {"entrada", "saida"} THEN <<>> ELSE <<"type">>)
  \o (IF b.description \notin {"undefined", "x"} THEN <<>> ELSE <<"description">>)
  \o (IF b.date.fmt = "date" THEN <<>> ELSE <<"date">>)
  \o (IF b.category_id = Undef \/ b.category_id.fmt = "cat" THEN <<>> ELSE <<"category_id">>)
  \o (IF b.subcategory_id = Undef \/ b.subcategory_id.fmt = "sub" THEN <<>> ELSE <<"subcategory_id">>)

\* validateCategory
ValidateCategory(b) == IF ValidName(b.name) THEN <<>> ELSE <<"name">>

\* validateSubcategory
ValidateSubcategory(b) ==
  (IF ValidName(b.name) THEN <<>> ELSE <<"name">>)
  \o (IF IsUUID(b.category_id) THEN <<>> ELSE <<"category_id">>)

\* validateUpdateUser
ValidateUpdateUser(id, b) ==
  (IF IsUUID(id) THEN <<>> ELSE <<"id">>)
  \o (IF b.name = "undefined" \/ ValidName(b.name) THEN <<>> ELSE <<"name">>)
  \o (IF b.phone \in {"undefined", "912345678"} THEN <<>> ELSE <<"phone">>)
  \o (IF b.role \in {"undefined", "administrador", "gerente"} THEN <<>> ELSE <<"role">>)
  \o (IF b.status \in {"undefined", "true", "false"} THEN <<>> ELSE <<"status">>)

\* validateUpdateProfile
ValidateUpdateProfile(b) ==
  (IF b.name = "undefined" \/ ValidName(b.name) THEN <<>> ELSE <<"name">>)
  \o (IF b.phone \in {"undefined", "912345678"} THEN <<>> ELSE <<"phone">>)

\* validateChangePassword
ValidateChangePassword(b) ==
  (IF b.currentPassword \notin {"undefined", ""} THEN <<>> ELSE <<"currentPassword">>)
  \o (IF b.newPassword # "undefined" /\ Len(b.newPassword) >= 6 THEN <<>> ELSE <<"newPassword">>)
  \o (IF b.confirmPassword = b.newPassword THEN <<>> ELSE <<"confirmPassword">>)

\* isEmail()
IsEmail(e) == e \notin {"undefined", "ana.x.pt"}

\* normalizeEmail(): lower case
NormalizeEmail(e) == IF e = "Ana@X.pt" THEN "ana@x.pt" ELSE e

\* isInt({min, max}) on an optional query parameter
IsIntOrAbsent(x, min, max) == x = Undef \/ (x.fmt = "int" /\ x.n >= min /\ x.n <= max)

\* validatePagination; `b` holds the query parameters of a GET
ValidatePagination(b) ==
  (IF IsIntOrAbsent(b.page, 1, b.page.n) THEN <<>> ELSE <<"page">>)
  \o (IF IsIntOrAbsent(b.limit, 1, 100) THEN <<>> ELSE <<"limit">>)

\* validateCreateUser
ValidateCreateUser(b) ==
  (IF IsEmail(b.email) THEN <<>> ELSE <<"email">>)
  \o (IF b.password # "undefined" /\ Len(b.password) >= 6 THEN <<>> ELSE <<"password">>)
  \o (IF ValidName(b.name) THEN <<>> ELSE <<"name">>)
  \o (IF b.phone \in {"undefined", "912345678"} THEN <<>> ELSE <<"phone">>)
  \o (IF b.role \in {"administrador", "gerente"} THEN <<>> ELSE <<"role">>)

\* validateLogin
ValidateLogin(b) ==
  (IF IsEmail(b.email) THEN <<>> ELSE <<"email">>)
  \o (IF b.password # "undefined" /\ Len(b.password) >= 6 THEN <<>> ELSE <<"password">>)

\* handleValidationErrors
HandleValidationErrors(violations, user) ==
  IF violations # <<>>
    THEN Rejected([AppError(400, "VALIDATION_ERROR") EXCEPT !.details = violations])
    ELSE Passed(user)

\* one link of a middleware chain: runs `next` only if `prev` let the request pass
Then(prev, next) == IF prev.ok THEN next ELSE prev

TxnOps == {"POST /transactions", "PUT /transactions/:id", "DELETE /transactions/:id"}
CatOps == {"POST /categories", "PUT /categories/:id", "DELETE /categories/:id"}
SubOps == {"POST /subcategories", "PUT /subcategories/:id", "DELETE /subcategories/:id"}
UserOps == {"PUT /users/:id", "DELETE /users/:id/deactivate", "DELETE /users/:id",
            "PUT /users/:id/reset-password", "POST /users"}
\* routes declared without verifyToken
PublicOps == {"POST /auth/login", "POST /auth/refresh"}
\* routes behind verifyToken alone
UngatedOps == {"GET /auth/me", "GET /transactions", "GET /profiles/:id", "PUT /profiles/:id",
               "POST /auth/change-password"}

\* the validators of a route, after verifyToken and the role gate
RouteValidators(q, user) ==
  CASE q.op = "POST /transactions" ->
         HandleValidationErrors(ValidateTransaction(q.body), user)
    [] q.op = "PUT /transactions/:id" ->
         Then(HandleValidationErrors(ValidateTransactionId(q.txnId), user),
              HandleValidationErrors(ValidateTransaction(q.body), user))
    [] q.op \in {"DELETE /transactions/:id", "DELETE /transactions/:id/file"} ->
         HandleValidationErrors(ValidateTransactionId(q.txnId), user)
    [] q.op = "POST /categories" ->
         HandleValidationErrors(ValidateCategory(q.body), user)
    [] q.op = "PUT /categories/:id" ->
         Then(HandleValidationErrors(ValidateUUID(q.id), user),
              HandleValidationErrors(ValidateCategory(q.body), user))
    [] q.op = "POST /subcategories" ->
         HandleValidationErrors(ValidateSubcategory(q.body), user)
    [] q.op = "PUT /subcategories/:id" ->
         Then(HandleValidationErrors(ValidateUUID(q.id), user),
              HandleValidationErrors(ValidateSubcategory(q.body), user))
    [] q.op = "PUT /users/:id" ->
         Then(HandleValidationErrors(ValidateUUID(q.id), user),
              HandleValidationErrors(ValidateUpdateUser(q.id, q.body), user))
    [] q.op = "PUT /profiles/:id" ->
         Then(HandleValidationErrors(ValidateUUID(q.id), user),
              HandleValidationErrors(ValidateUpdateProfile(q.body), user))
    [] q.op = "POST /auth/login" ->
         HandleValidationErrors(ValidateLogin(q.body), user)
    [] q.op = "POST /users" ->
         HandleValidationErrors(ValidateCreateUser(q.body), user)
    [] q.op \in {"GET /auth/me", "POST /files/upload", "POST /auth/refresh"} -> Passed(user)
    [] q.op = "POST /auth/change-password" ->
         HandleValidationErrors(ValidateChangePassword(q.body), user)
    [] q.op = "GET /transactions" ->
         HandleValidationErrors(ValidatePagination(q.body), user)
    [] OTHER -> HandleValidationErrors(ValidateUUID(q.id), user)

\* the role gate of a route
RoleGate(q, user) ==
  IF q.op \in UserOps THEN RequireAdmin(user)
  ELSE IF q.op \in PublicOps \cup UngatedOps THEN Passed(user)
  ELSE RequireAdminOrManager(user)

\* the identity attached to the request before its gate
Identify(q) == IF q.op \in PublicOps THEN Passed(NoUser) ELSE VerifyToken(q.hdr)

\* the middleware chain of a route: verifyToken, the role gate, the validators
Middleware(q) ==
  LET v == Identify(q)
      g == Then(v, RoleGate(q, v.user))
  IN Then(g, RouteValidators(q, v.user))

\* the handler's first statement
FirstPc(op) ==
  CASE op = "POST /transactions" -> "t_cat"
    [] op = "PUT /transactions/:id" -> "u_get"
    [] op = "DELETE /transactions/:id" -> "d_get"
    [] op = "DELETE /transactions/:id/file" -> "f_get"
    [] op = "POST /categories" -> "c_chk"
    [] op = "PUT /categories/:id" -> "pc_get"
    [] op = "DELETE /categories/:id" -> "dc_get"
    [] op = "POST /subcategories" -> "s_cat"
    [] op = "PUT /subcategories/:id" -> "ps_get"
    [] op = "DELETE /subcategories/:id" -> "ds_get"
    [] op = "PUT /users/:id" -> "pu_get"
    [] op = "DELETE /users/:id/deactivate" -> "da_get"
    [] op = "DELETE /users/:id" -> "du_get"
    [] op = "PUT /users/:id/reset-password" -> "rp_get"
    [] op = "POST /auth/login" -> "li_get"
    [] op = "POST /users" -> "cu_chk"
    [] op = "GET /auth/me" -> "me_get"
    [] op = "GET /transactions" -> "l_cnt"
    [] op = "POST /files/upload" -> "up_file"
    [] op = "GET /profiles/:id" -> "gp_get"
    [] op = "POST /auth/refresh" -> "rf_get"
    [] op = "POST /auth/change-password" -> "cp_get"
    [] op = "PUT /profiles/:id" -> "pp_get"

\* the request, ended by the error handler's response to `err`
Failed(q, err) ==
  [q EXCEPT !.pc = "done", !.status = ErrorHandler(err).status,
            !.code = ErrorHandler(err).code, !.err = err.code,
            !.details = ErrorHandler(err).details]

\* the request, ended by res.status(status).json({success: true, ...})
Succeeded(q, status) == [q EXCEPT !.pc = "done", !.status = status, !.code = ""]

\* a request arrives in a free slot and passes through its middleware chain
Receive(r, q) ==
  /\ req[r].pc \in {"idle", "done"}
  /\ started < MaxStarts
  /\ started' = started + 1
  /\ LET m == Middleware(q)
         identified == [q EXCEPT !.user = Identify(q).user]
     IN req' = [req EXCEPT ![r] =
                  IF m.ok THEN [identified EXCEPT !.pc = FirstPc(q.op)]
                  ELSE Failed(identified, m.err)]
  /\ UNCHANGED <<dbVars, now, assigned, revoked, lastGen, call, pool>>

\* the handler throws: catch (error) { next(error) }
Throw(r, err) == req' = [req EXCEPT ![r] = Failed(req[r], err)]
Goto(r, pc) == req' = [req EXCEPT ![r].pc = pc]
Respond(r, status) == req' = [req EXCEPT ![r] = Succeeded(req[r], status)]

(***************************************************************************)
(* The sequential transaction-id allocator.  The text after "txn-" is a    *)
(* sequence of decimal digits.                                             *)
(***************************************************************************)
RECURSIVE ParseInt(_)
\* parseInt(text) of a string of digits
ParseInt(d) == IF d = <<>> THEN 0 ELSE 10 * ParseInt(SubSeq(d, 1, Len(d) - 1)) + d[Len(d)]

RECURSIVE CastUnsigned(_)
\* CAST(text AS UNSIGNED) of a string of digits
CastUnsigned(d) ==
  IF d = <<>> THEN 0 ELSE 10 * CastUnsigned(SubSeq(d, 1, Len(d) - 1)) + d[Len(d)]

RECURSIVE NumberToString(_)
\* Number.prototype.toString() of a non-negative integer
NumberToString(n) == IF n < 10 THEN <<n>> ELSE NumberToString(n \div 10) \o <<n % 10>>

RECURSIVE PadStart(_, _, _)
\* String.prototype.padStart(targetLength, padString) with a one-character pad
PadStart(d, targetLength, ch) ==
  IF Len(d) >= targetLength THEN d ELSE PadStart(<<ch>> \o d, targetLength, ch)

RECURSIVE LexLess(_, _)
\* string comparison of two digit strings
LexLess(a, b) ==
  IF a = <<>> THEN b # <<>>
  ELSE IF b = <<>> THEN FALSE
  ELSE IF a[1] # b[1] THEN a[1] < b[1]
  ELSE LexLess(Tail(a), Tail(b))

\* the rows' ids, as a set
TableIds(table) == {table[i].id : i \in 1..Len(table)}

\* the same query ordering the ids as text: ORDER BY id DESC LIMIT 1
LastTransactionIdLexical(table) ==
  LET ids == {id \in TableIds(table) : id.prefix = "txn-"}
  IN IF ids = {} THEN {}
     ELSE {CHOOSE id \in ids : \A other \in ids :
              other = id \/ LexLess(other.digits, id.digits)}

\* SELECT id FROM transactions WHERE id LIKE 'txn-%'
\*   ORDER BY CAST(SUBSTRING(id, 5) AS UNSIGNED) DESC LIMIT 1
LastTransactionId(table) ==
  LET ids == {id \in TableIds(table) : id.prefix = "txn-"}
  IN IF ids = {} THEN {}
     ELSE {CHOOSE id \in ids : \A other \in ids :
              CastUnsigned(other.digits) <= CastUnsigned(id.digits)}

\* generateNextTransactionId
GenerateNextTransactionId(table) ==
  LET result == LastTransactionId(table)
  IN IF result = {} THEN TxnId(<<0, 0, 1>>)
     ELSE LET lastId == CHOOSE id \in result : TRUE
              lastNumber == ParseInt(lastId.digits)
              nextNumber == lastNumber + 1
          IN TxnId(PadStart(NumberToString(nextNumber), 3, 0))

\* the primary key of transactions: is there a row with this id?
PrimaryKeyHit(table, id) == \E i \in 1..Len(table) : table[i].id = id

\* SELECT ... FROM transactions WHERE id = ?
TransactionRows(id) == {i \in 1..Len(transactions) : transactions[i].id = id}

\* DELETE FROM transactions WHERE id = ?
WithoutTransaction(table, id) == SelectSeq(table, LAMBDA row : row.id # id)

\* SELECT id FROM categories WHERE id = ?
CategoryRows(id) == {c \in DOMAIN categories : c = id}

\* SELECT id, category_id FROM subcategories WHERE id = ? [AND category_id = ?]
SubcategoryRows(subId, catId) ==
  {s \in DOMAIN subcategories :
     s = subId /\ (Truthy(catId) => subcategories[s].category_id = catId)}

\* the name of the file a receipt URL points to: url.split('/').pop()
FileNameOf(url) == url.n

(***************************************************************************)
(* POST /api/transactions                                                  *)
(***************************************************************************)
PostTransactionCheckCategory(r) ==
  /\ req[r].pc = "t_cat"
  /\ LET category_id == req[r].body.category_id IN
       IF Truthy(category_id) /\ CategoryRows(category_id) = {}
         THEN Throw(r, AppError(404, "CATEGORY_NOT_FOUND"))
         ELSE Goto(r, "t_sub")
  /\ UNCHANGED <<dbVars, now, started, assigned, revoked, lastGen, call, pool>>

PostTransactionCheckSubcategory(r) ==
  /\ req[r].pc = "t_sub"
  /\ LET b == req[r].body IN
       IF Truthy(b.subcategory_id) /\ SubcategoryRows(b.subcategory_id, b.category_id) = {}
         THEN Throw(r, AppError(404, "SUBCATEGORY_NOT_FOUND"))
         ELSE Goto(r, "t_gen")
  /\ UNCHANGED <<dbVars, now, started, assigned, revoked, lastGen, call, pool>>

PostTransactionGenerateId(r) ==
  /\ req[r].pc = "t_gen"
  /\ req' = [req EXCEPT ![r].pc = "t_ins",
                        ![r].transactionId = GenerateNextTransactionId(transactions)]
  /\ UNCHANGED <<dbVars, now, started, assigned, revoked, lastGen, call, pool>>

PostTransactionInsert(r) ==
  /\ req[r].pc = "t_ins"
  /\ LET b == req[r].body
         row == [id |-> req[r].transactionId,
                 category_id |-> OrNull(b.category_id),
                 subcategory_id |-> OrNull(b.subcategory_id),
                 receipt_url |-> OrNull(b.comprovativo_url),
                 created_by |-> req[r].user.id,
                 date |-> b.date, created_at |-> now]
     IN IF PrimaryKeyHit(transactions, row.id)
          THEN /\ Throw(r, DriverError("ER_DUP_ENTRY"))
               /\ UNCHANGED <<transactions, assigned>>
          ELSE /\ transactions' = Append(transactions, row)
               /\ assigned' = Append(assigned, row.id)
               /\ Respond(r, 201)
  /\ UNCHANGED <<users, profiles, categories, subcategories, files, uuidCount,
                 now, started, revoked, lastGen, call, pool>>

(***************************************************************************)
(* DELETE /api/transactions/:id                                            *)
(***************************************************************************)
DeleteTransactionFind(r) ==
  /\ req[r].pc = "d_get"
  /\ LET rows == TransactionRows(req[r].txnId) IN
       IF rows = {} THEN Throw(r, AppError(404, "TRANSACTION_NOT_FOUND"))
       ELSE req' = [req EXCEPT ![r].pc = "d_file",
                       ![r].current = transactions[CHOOSE i \in rows : TRUE].receipt_url]
  /\ UNCHANGED <<dbVars, now, started, assigned, revoked, lastGen, call, pool>>

\* the receipt file is unlinked; an error of the file system is caught and logged
DeleteTransactionFile(r) ==
  /\ req[r].pc = "d_file"
  /\ IF Truthy(req[r].current)
       THEN \E unlinked \in BOOLEAN :
              files' = IF unlinked THEN files \ {FileNameOf(req[r].current)} ELSE files
       ELSE files' = files
  /\ Goto(r, "d_del")
  /\ UNCHANGED <<users, profiles, categories, subcategories, transactions, uuidCount,
                 now, started, assigned, revoked, lastGen, call, pool>>

DeleteTransactionRow(r) ==
  /\ req[r].pc = "d_del"
  /\ transactions' = WithoutTransaction(transactions, req[r].txnId)
  /\ Respond(r, 200)
  /\ UNCHANGED <<users, profiles, categories, subcategories, files, uuidCount,
                 now, started, assigned, revoked, lastGen, call, pool>>

(***************************************************************************)
(* DELETE /api/transactions/:id/file                                       *)
(***************************************************************************)
DeleteFileFind(r) ==
  /\ req[r].pc = "f_get"
  /\ LET rows == TransactionRows(req[r].txnId) IN
       IF rows = {} THEN Throw(r, AppError(404, "TRANSACTION_NOT_FOUND"))
       ELSE LET receipt_url == transactions[CHOOSE i \in rows : TRUE].receipt_url IN
         IF ~Truthy(receipt_url) THEN Throw(r, AppError(400, "NO_FILE_ATTACHED"))
         ELSE req' = [req EXCEPT ![r].pc = "f_file", ![r].current = receipt_url]
  /\ UNCHANGED <<dbVars, now, started, assigned, revoked, lastGen, call, pool>>

\* the step with an error of the file system caught and logged only
DeleteFileUnlinkBestEffort(r) ==
  /\ req[r].pc = "f_file"
  /\ \E unlinked \in BOOLEAN :
       files' = IF unlinked THEN files \ {FileNameOf(req[r].current)} ELSE files
  /\ Goto(r, "f_upd")
  /\ UNCHANGED <<users, profiles, categories, subcategories, transactions, uuidCount,
                 now, started, assigned, revoked, lastGen, call, pool>>

\* if (fs.existsSync(filePath)) fs.unlinkSync(filePath); an error of the file
\* system becomes 500 FILE_DELETE_ERROR
DeleteFileUnlink(r) ==
  /\ req[r].pc = "f_file"
  /\ IF FileNameOf(req[r].current) \in files
       THEN \E unlinked \in BOOLEAN :
              IF unlinked
                THEN files' = files \ {FileNameOf(req[r].current)} /\ Goto(r, "f_upd")
                ELSE files' = files /\ Throw(r, AppError(500, "FILE_DELETE_ERROR"))
       ELSE files' = files /\ Goto(r, "f_upd")
  /\ UNCHANGED <<users, profiles, categories, subcategories, transactions, uuidCount,
                 now, started, assigned, revoked, lastGen, call, pool>>

\* UPDATE transactions SET receipt_url = NULL WHERE id = ?
DeleteFileUpdate(r) ==
  /\ req[r].pc = "f_upd"
  /\ transactions' = [i \in 1..Len(transactions) |->
                        IF transactions[i].id = req[r].txnId
                          THEN [transactions[i] EXCEPT !.receipt_url = Null]
                          ELSE transactions[i]]
  /\ Respond(r, 200)
  /\ UNCHANGED <<users, profiles, categories, subcategories, files, uuidCount,
                 now, started, assigned, revoked, lastGen, call, pool>>

(***************************************************************************)
(* PUT /api/transactions/:id                                               *)
(***************************************************************************)
PutTransactionFind(r) ==
  /\ req[r].pc = "u_get"
  /\ LET rows == TransactionRows(req[r].txnId) IN
       IF rows = {} THEN Throw(r, AppError(404, "TRANSACTION_NOT_FOUND"))
       ELSE req' = [req EXCEPT ![r].pc = "u_cat",
                       ![r].current = transactions[CHOOSE i \in rows : TRUE].receipt_url]
  /\ UNCHANGED <<dbVars, now, started, assigned, revoked, lastGen, call, pool>>

PutTransactionCheckCategory(r) ==
  /\ req[r].pc = "u_cat"
  /\ LET category_id == req[r].body.category_id IN
       IF Truthy(category_id) /\ CategoryRows(category_id) = {}
         THEN Throw(r, AppError(404, "CATEGORY_NOT_FOUND"))
         ELSE Goto(r, "u_sub")
  /\ UNCHANGED <<dbVars, now, started, assigned, revoked, lastGen, call, pool>>

PutTransactionCheckSubcategory(r) ==
  /\ req[r].pc = "u_sub"
  /\ LET b == req[r].body IN
       IF Truthy(b.subcategory_id) /\ SubcategoryRows(b.subcategory_id, b.category_id) = {}
         THEN Throw(r, AppError(404, "SUBCATEGORY_NOT_FOUND"))
         ELSE Goto(r, "u_file")
  /\ UNCHANGED <<dbVars, now, started, assigned, revoked, lastGen, call, pool>>

\* the step with an error of the file system thrown on to the error handler
PutTransactionFileFatal(r) ==
  /\ req[r].pc = "u_file"
  /\ LET url == req[r].body.comprovativo_url
         current == req[r].current
         replaced == Truthy(url) /\ Truthy(current) /\ url # current
         removed == url \in {Null, EmptyStr} /\ Truthy(current)
     IN IF replaced \/ removed
          THEN \E unlinked \in BOOLEAN :
                 IF unlinked THEN files' = files \ {FileNameOf(current)} /\ Goto(r, "u_upd")
                 ELSE files' = files /\ Throw(r, AppError(500, "FILE_DELETE_ERROR"))
          ELSE files' = files /\ Goto(r, "u_upd")
  /\ UNCHANGED <<users, profiles, categories, subcategories, transactions, uuidCount,
                 now, started, assigned, revoked, lastGen, call, pool>>

\* the old receipt file is unlinked when the receipt is replaced or removed;
\* an error of the file system is caught and logged
PutTransactionFile(r) ==
  /\ req[r].pc = "u_file"
  /\ LET url == req[r].body.comprovativo_url
         current == req[r].current
         replaced == Truthy(url) /\ Truthy(current) /\ url # current
         removed == url \in {Null, EmptyStr} /\ Truthy(current)
     IN IF replaced \/ removed
          THEN \E unlinked \in BOOLEAN :
                 files' = IF unlinked THEN files \ {FileNameOf(current)} ELSE files
          ELSE files' = files
  /\ Goto(r, "u_upd")
  /\ UNCHANGED <<users, profiles, categories, subcategories, transactions, uuidCount,
                 now, started, assigned, revoked, lastGen, call, pool>>

PutTransactionUpdate(r) ==
  /\ req[r].pc = "u_upd"
  /\ LET b == req[r].body IN
       transactions' =
         [i \in 1..Len(transactions) |->
            IF transactions[i].id = req[r].txnId
              THEN [transactions[i] EXCEPT !.category_id = OrNull(b.category_id),
                                           !.subcategory_id = OrNull(b.subcategory_id),
                                           !.receipt_url = OrNull(b.comprovativo_url),
                                           !.date = b.date]
              ELSE transactions[i]]
  /\ Respond(r, 200)
  /\ UNCHANGED <<users, profiles, categories, subcategories, files, uuidCount,
                 now, started, assigned, revoked, lastGen, call, pool>>

(***************************************************************************)
(* GET /api/transactions                                                   *)
(***************************************************************************)
\* parseInt(text) || fallback
ParseIntOr(x, fallback) == IF x.fmt = "int" /\ x.n # 0 THEN x.n ELSE fallback

\* Math.ceil(total / limit) with an offset that forgets the last partial page
CeilFloor(total, limit) == total \div limit

\* Math.ceil(total / limit)
Ceil(total, limit) ==
  IF total % limit = 0 THEN total \div limit ELSE total \div limit + 1

\* the rows the WHERE clause of the list keeps: 1=1 AND t.category_id = ? if given
ListMatches(b) ==
  {i \in 1..Len(transactions) :
     Truthy(b.category_id) => transactions[i].category_id = b.category_id}

\* ORDER BY t.date DESC, t.created_at DESC: the orders the server may return the
\* rows in; rows equal in both columns come in any order
ListOrders(rows) ==
  {o \in [1..Cardinality(rows) -> rows] :
     /\ \A i, j \in DOMAIN o : i # j => o[i] # o[j]
     /\ \A i, j \in DOMAIN o :
          i < j => LET a == transactions[o[i]]
                       b == transactions[o[j]]
                   IN \/ a.date.n > b.date.n
                      \/ a.date.n = b.date.n /\ a.created_at >= b.created_at}

\* SELECT COUNT(*) as total FROM transactions t WHERE ...
ListCount(r) ==
  /\ req[r].pc = "l_cnt"
  /\ req' = [req EXCEPT ![r].pc = "l_sel",
                        ![r].pagination.total = Cardinality(ListMatches(req[r].body))]
  /\ UNCHANGED <<dbVars, now, started, assigned, revoked, lastGen, call, pool>>

\* SELECT ... ORDER BY t.date DESC, t.created_at DESC LIMIT ? OFFSET ?, and the
\* response
ListSelect(r) ==
  /\ req[r].pc = "l_sel"
  /\ LET page == ParseIntOr(req[r].body.page, 1)
         limit == ParseIntOr(req[r].body.limit, 20)
         offset == (page - 1) * limit
         rows == ListMatches(req[r].body)
         left == Cardinality(rows) - offset
         returned == IF left < 0 THEN 0 ELSE IF left < limit THEN left ELSE limit
     IN \E o \in ListOrders(rows) :
          req' = [req EXCEPT ![r] =
                    [Succeeded(req[r], 200) EXCEPT
                       !.data = [k \in 1..returned |-> transactions[o[offset + k]].id],
                       !.pagination = [page |-> page, limit |-> limit,
                                       total |-> req[r].pagination.total,
                                       totalPages |-> Ceil(req[r].pagination.total, limit)]]]
  /\ UNCHANGED <<dbVars, now, started, assigned, revoked, lastGen, call, pool>>

(***************************************************************************)
(* Categories and subcategories.                                           *)
(***************************************************************************)
\* uuidv4(): a value no row holds yet
Uuidv4 == Uuid(100 + uuidCount)

\* SELECT id FROM categories WHERE name = ?
CategoriesNamed(name) == {c \in DOMAIN categories : categories[c].name = name}

\* SELECT id FROM subcategories WHERE name = ? AND category_id = ? [AND id != ?]
SubcategoriesNamed(name, category_id, except) ==
  {s \in DOMAIN subcategories :
     /\ subcategories[s].name = name
     /\ subcategories[s].category_id = category_id
     /\ s # except}

\* a count that sees no subcategory
SubcategoryCountNone(category_id) == 0

\* SELECT COUNT(*) as count FROM subcategories WHERE category_id = ?
SubcategoryCount(category_id) ==
  Cardinality({s \in DOMAIN subcategories : subcategories[s].category_id = category_id})

\* SELECT COUNT(*) as count FROM transactions WHERE <column> = ?
TransactionCount(column, id) ==
  Cardinality({i \in 1..Len(transactions) : transactions[i][column] = id})

\* the table without the row of this id
Without(table, id) == [k \in DOMAIN table \ {id} |-> table[k]]

(***************************************************************************)
(* POST /api/categories                                                    *)
(***************************************************************************)
PostCategoryCheckName(r) ==
  /\ req[r].pc = "c_chk"
  /\ IF CategoriesNamed(req[r].body.name) # {}
       THEN Throw(r, AppError(409, "CATEGORY_EXISTS"))
       ELSE Goto(r, "c_ins")
  /\ UNCHANGED <<dbVars, now, started, assigned, revoked, lastGen, call, pool>>

PostCategoryInsert(r) ==
  /\ req[r].pc = "c_ins"
  /\ uuidCount < MaxUuid
  /\ uuidCount' = uuidCount + 1
  /\ categories' = (Uuidv4 :> [name |-> req[r].body.name]) @@ categories
  /\ req' = [req EXCEPT ![r] = Succeeded([req[r] EXCEPT !.current = Uuidv4], 201)]
  /\ UNCHANGED <<users, profiles, subcategories, transactions, files,
                 now, started, assigned, revoked, lastGen, call, pool>>

(***************************************************************************)
(* DELETE /api/categories/:id                                              *)
(***************************************************************************)
DeleteCategoryFind(r) ==
  /\ req[r].pc = "dc_get"
  /\ IF CategoryRows(req[r].id) = {}
       THEN Throw(r, AppError(404, "CATEGORY_NOT_FOUND"))
       ELSE Goto(r, "dc_subs")
  /\ UNCHANGED <<dbVars, now, started, assigned, revoked, lastGen, call, pool>>

DeleteCategoryCountSubcategories(r) ==
  /\ req[r].pc = "dc_subs"
  /\ IF SubcategoryCount(req[r].id) > 0
       THEN Throw(r, AppError(400, "CATEGORY_HAS_SUBCATEGORIES"))
       ELSE Goto(r, "dc_txs")
  /\ UNCHANGED <<dbVars, now, started, assigned, revoked, lastGen, call, pool>>

DeleteCategoryCountTransactions(r) ==
  /\ req[r].pc = "dc_txs"
  /\ IF TransactionCount("category_id", req[r].id) > 0
       THEN Throw(r, AppError(400, "CATEGORY_IN_USE"))
       ELSE Goto(r, "dc_del")
  /\ UNCHANGED <<dbVars, now, started, assigned, revoked, lastGen, call, pool>>

DeleteCategoryRow(r) ==
  /\ req[r].pc = "dc_del"
  /\ categories' = Without(categories, req[r].id)
  /\ Respond(r, 200)
  /\ UNCHANGED <<users, profiles, subcategories, transactions, files, uuidCount,
                 now, started, assigned, revoked, lastGen, call, pool>>

(***************************************************************************)
(* POST /api/subcategories                                                 *)
(***************************************************************************)
PostSubcategoryCheckCategory(r) ==
  /\ req[r].pc = "s_cat"
  /\ IF CategoryRows(req[r].body.category_id) = {}
       THEN Throw(r, AppError(404, "CATEGORY_NOT_FOUND"))
       ELSE Goto(r, "s_dup")
  /\ UNCHANGED <<dbVars, now, started, assigned, revoked, lastGen, call, pool>>

PostSubcategoryCheckName(r) ==
  /\ req[r].pc = "s_dup"
  /\ IF SubcategoriesNamed(req[r].body.name, req[r].body.category_id, Null) # {}
       THEN Throw(r, AppError(409, "SUBCATEGORY_EXISTS"))
       ELSE Goto(r, "s_ins")
  /\ UNCHANGED <<dbVars, now, started, assigned, revoked, lastGen, call, pool>>

PostSubcategoryInsert(r) ==
  /\ req[r].pc = "s_ins"
  /\ uuidCount < MaxUuid
  /\ uuidCount' = uuidCount + 1
  /\ subcategories' =
       (Uuidv4 :> [name |-> req[r].body.name, category_id |-> req[r].body.category_id])
       @@ subcategories
  /\ req' = [req EXCEPT ![r] = Succeeded([req[r] EXCEPT !.current = Uuidv4], 201)]
  /\ UNCHANGED <<users, profiles, categories, transactions, files,
                 now, started, assigned, revoked, lastGen, call, pool>>

(***************************************************************************)
(* PUT /api/subcategories/:id                                              *)
(***************************************************************************)
PutSubcategoryFind(r) ==
  /\ req[r].pc = "ps_get"
  /\ IF SubcategoryRows(req[r].id, Null) = {}
       THEN Throw(r, AppError(404, "SUBCATEGORY_NOT_FOUND"))
       ELSE Goto(r, "ps_cat")
  /\ UNCHANGED <<dbVars, now, started, assigned, revoked, lastGen, call, pool>>

PutSubcategoryCheckCategory(r) ==
  /\ req[r].pc = "ps_cat"
  /\ IF CategoryRows(req[r].body.category_id) = {}
       THEN Throw(r, AppError(404, "CATEGORY_NOT_FOUND"))
       ELSE Goto(r, "ps_dup")
  /\ UNCHANGED <<dbVars, now, started, assigned, revoked, lastGen, call, pool>>

PutSubcategoryCheckName(r) ==
  /\ req[r].pc = "ps_dup"
  /\ IF SubcategoriesNamed(req[r].body.name, req[r].body.category_id, req[r].id) # {}
       THEN Throw(r, AppError(409, "SUBCATEGORY_EXISTS"))
       ELSE Goto(r, "ps_upd")
  /\ UNCHANGED <<dbVars, now, started, assigned, revoked, lastGen, call, pool>>

\* UPDATE subcategories SET name = ?, category_id = ? WHERE id = ?
PutSubcategoryUpdate(r) ==
  /\ req[r].pc = "ps_upd"
  /\ subcategories' =
       [s \in DOMAIN subcategories |->
          IF s = req[r].id
            THEN [name |-> req[r].body.name, category_id |-> req[r].body.category_id]
            ELSE subcategories[s]]
  /\ Respond(r, 200)
  /\ UNCHANGED <<users, profiles, categories, transactions, files, uuidCount,
                 now, started, assigned, revoked, lastGen, call, pool>>

(***************************************************************************)
(* DELETE /api/subcategories/:id                                           *)
(***************************************************************************)
DeleteSubcategoryFind(r) ==
  /\ req[r].pc = "ds_get"
  /\ IF SubcategoryRows(req[r].id, Null) = {}
       THEN Throw(r, AppError(404, "SUBCATEGORY_NOT_FOUND"))
       ELSE Goto(r, "ds_txs")
  /\ UNCHANGED <<dbVars, now, started, assigned, revoked, lastGen, call, pool>>

DeleteSubcategoryCountTransactions(r) ==
  /\ req[r].pc = "ds_txs"
  /\ IF TransactionCount("subcategory_id", req[r].id) > 0
       THEN Throw(r, AppError(400, "SUBCATEGORY_IN_USE"))
       ELSE Goto(r, "ds_del")
  /\ UNCHANGED <<dbVars, now, started, assigned, revoked, lastGen, call, pool>>

DeleteSubcategoryRow(r) ==
  /\ req[r].pc = "ds_del"
  /\ subcategories' = Without(subcategories, req[r].id)
  /\ Respond(r, 200)
  /\ UNCHANGED <<users, profiles, categories, transactions, files, uuidCount,
                 now, started, assigned, revoked, lastGen, call, pool>>

(***************************************************************************)
(* PUT /api/users/:id                                                      *)
(***************************************************************************)
\* bcrypt.hash(password, saltRounds)
Hash(password) == [alg |-> "bcrypt", pw |-> password]

\* a row of users and a row of profiles
Account(email) == [email |-> email, password_hash |-> Hash("secret-" \o email)]
Profile(email, role, status) ==
  [email |-> email, role |-> role, status |-> status, last_login |-> Null,
   name |-> "Nome", phone |-> "null"]

\* SELECT id FROM profiles WHERE id = ?
ProfileRows(id) == {p \in DOMAIN profiles : p = id}

PutUserFind(r) ==
  /\ req[r].pc = "pu_get"
  /\ LET b == req[r].body IN
       IF ProfileRows(req[r].id) = {} THEN Throw(r, AppError(404, "USER_NOT_FOUND"))
       ELSE IF /\ b.name = "undefined" /\ b.phone = "undefined"
               /\ b.role = "undefined" /\ b.status = "undefined"
         THEN Throw(r, AppError(400, "NO_UPDATE_FIELDS"))
       ELSE Goto(r, "pu_upd")
  /\ UNCHANGED <<dbVars, now, started, assigned, revoked, lastGen, call, pool>>

\* UPDATE profiles SET <the fields of the body> WHERE id = ?
PutUserUpdate(r) ==
  /\ req[r].pc = "pu_upd"
  /\ LET b == req[r].body
         id == req[r].id
         role == IF b.role # "undefined" THEN b.role ELSE profiles[id].role
         status == IF b.status = "undefined" THEN profiles[id].status
                   ELSE IF b.status = "true" THEN 1 ELSE 0
         name == IF b.name # "undefined" THEN b.name ELSE profiles[id].name
         phone == IF b.phone # "undefined" THEN b.phone ELSE profiles[id].phone
     IN /\ profiles' = [p \in DOMAIN profiles |->
                          IF p = id THEN [profiles[p] EXCEPT !.role = role, !.status = status,
                                                             !.name = name, !.phone = phone]
                          ELSE profiles[p]]
        /\ revoked' = IF id \in DOMAIN profiles /\ status = 0 THEN revoked \cup {id}
                      ELSE revoked
  /\ Respond(r, 200)
  /\ UNCHANGED <<users, categories, subcategories, transactions, files, uuidCount,
                 now, started, assigned, lastGen, call, pool>>

(***************************************************************************)
(* DELETE /api/users/:id/deactivate                                        *)
(***************************************************************************)
DeactivateUserFind(r) ==
  /\ req[r].pc = "da_get"
  /\ IF ProfileRows(req[r].id) = {} THEN Throw(r, AppError(404, "USER_NOT_FOUND"))
     ELSE IF req[r].id = req[r].user.id
       THEN Throw(r, AppError(400, "CANNOT_DEACTIVATE_SELF"))
     ELSE Goto(r, "da_upd")
  /\ UNCHANGED <<dbVars, now, started, assigned, revoked, lastGen, call, pool>>

\* UPDATE profiles SET status = 0 WHERE id = ?
DeactivateUserUpdate(r) ==
  /\ req[r].pc = "da_upd"
  /\ profiles' = [p \in DOMAIN profiles |->
                    IF p = req[r].id THEN [profiles[p] EXCEPT !.status = 0] ELSE profiles[p]]
  /\ revoked' = IF req[r].id \in DOMAIN profiles THEN revoked \cup {req[r].id} ELSE revoked
  /\ Respond(r, 200)
  /\ UNCHANGED <<users, categories, subcategories, transactions, files, uuidCount,
                 now, started, assigned, lastGen, call, pool>>

(***************************************************************************)
(* DELETE /api/users/:id                                                   *)
(***************************************************************************)
\* the lookup without `if (id === req.user.id)`
DeleteUserFindNoSelfCheck(r) ==
  /\ req[r].pc = "du_get"
  /\ IF ProfileRows(req[r].id) = {} THEN Throw(r, AppError(404, "USER_NOT_FOUND"))
     ELSE req' = [req EXCEPT ![r].pc = "du_start",
                             ![r].userEmail = profiles[req[r].id].email]
  /\ UNCHANGED <<dbVars, now, started, assigned, revoked, lastGen, call, pool>>

DeleteUserFind(r) ==
  /\ req[r].pc = "du_get"
  /\ IF ProfileRows(req[r].id) = {} THEN Throw(r, AppError(404, "USER_NOT_FOUND"))
     ELSE IF req[r].id = req[r].user.id
       THEN Throw(r, AppError(400, "CANNOT_DELETE_SELF"))
     ELSE req' = [req EXCEPT ![r].pc = "du_start",
                             ![r].userEmail = profiles[req[r].id].email]
  /\ UNCHANGED <<dbVars, now, started, assigned, revoked, lastGen, call, pool>>

\* executeQuery('START TRANSACTION') goes through pool.execute, the prepared
\* statement protocol: the server either runs the statement or refuses it
DeleteUserStart(r) ==
  /\ req[r].pc = "du_start"
  /\ \E accepted \in BOOLEAN :
       IF accepted THEN Goto(r, "du_prof")
       ELSE Throw(r, DriverError("ER_UNSUPPORTED_PS"))
  /\ UNCHANGED <<dbVars, now, started, assigned, revoked, lastGen, call, pool>>

\* DELETE FROM profiles WHERE id = ?
DeleteUserProfile(r) ==
  /\ req[r].pc = "du_prof"
  /\ profiles' = Without(profiles, req[r].id)
  /\ revoked' = IF req[r].id \in DOMAIN profiles THEN revoked \cup {req[r].id} ELSE revoked
  /\ req' = [req EXCEPT ![r].pc = "du_user",
                        ![r].deleted = IF req[r].id \in DOMAIN profiles
                                         THEN profiles[req[r].id] ELSE Null]
  /\ UNCHANGED <<users, categories, subcategories, transactions, files, uuidCount,
                 now, started, assigned, lastGen, call, pool>>

\* DELETE FROM users WHERE email = ?
DeleteUserAccount(r) ==
  /\ req[r].pc = "du_user"
  /\ users' = [u \in {v \in DOMAIN users : users[v].email # req[r].userEmail} |-> users[u]]
  /\ Goto(r, "du_commit")
  /\ UNCHANGED <<profiles, categories, subcategories, transactions, files, uuidCount,
                 now, started, assigned, revoked, lastGen, call, pool>>

\* COMMIT and the response
DeleteUserCommit(r) ==
  /\ req[r].pc = "du_commit"
  /\ Respond(r, 200)
  /\ UNCHANGED <<dbVars, now, started, assigned, revoked, lastGen, call, pool>>

\* DELETE FROM users WHERE email = ? fails; the catch block sends ROLLBACK through
\* the pool and rethrows.  ROLLBACK undoes the deletion of the profile if the
\* pool ran START TRANSACTION, the DELETE and ROLLBACK on one connection, and
\* nothing if the DELETE ran on another connection, where it was committed at once
DeleteUserAccountFails(r) ==
  /\ req[r].pc = "du_user"
  /\ \E undone \in BOOLEAN :
       profiles' = IF undone /\ req[r].deleted # Null /\ req[r].id \notin DOMAIN profiles
                     THEN (req[r].id :> req[r].deleted) @@ profiles
                     ELSE profiles
  /\ Throw(r, DriverError("ER_LOCK_DEADLOCK"))
  /\ UNCHANGED <<users, categories, subcategories, transactions, files, uuidCount,
                 now, started, assigned, revoked, lastGen, call, pool>>

(***************************************************************************)
(* executeTransaction(queries).  The statements of a transaction take      *)
(* effect in the tables when it commits; until then they are pending on    *)
(* its connection.  Each call of the driver succeeds or throws.            *)
(***************************************************************************)
\* the rows the pending INSERTs put into `table`
Inserted(pending, table) ==
  LET ids == {pending[i].id : i \in {j \in 1..Len(pending) : pending[j].table = table}}
  IN [id \in ids |-> (CHOOSE q \in {pending[i] : i \in 1..Len(pending)} :
                        q.table = table /\ q.id = id).row]

\* const connection = await pool.getConnection()
ExecGetConnection(r) ==
  /\ req[r].pc = "tx_conn"
  /\ pool < ConnectionLimit
  /\ \E ok \in BOOLEAN :
       IF ok THEN pool' = pool + 1 /\ Goto(r, "tx_begin")
       ELSE pool' = pool /\ Throw(r, DriverError("ECONNREFUSED"))
  /\ UNCHANGED <<dbVars, now, started, assigned, revoked, lastGen, call>>

\* await connection.beginTransaction()
ExecBegin(r) ==
  /\ req[r].pc = "tx_begin"
  /\ \E ok \in BOOLEAN :
       IF ok THEN Goto(r, "tx_stmt")
       ELSE req' = [req EXCEPT ![r].pc = "tx_rollback",
                               ![r].caught = DriverError("PROTOCOL_CONNECTION_LOST")]
  /\ UNCHANGED <<dbVars, now, started, assigned, revoked, lastGen, call, pool>>

\* await connection.execute(query, params), for the next of the queries
ExecStatement(r) ==
  /\ req[r].pc = "tx_stmt"
  /\ \E ok \in BOOLEAN :
       IF ok THEN req' = [req EXCEPT
                            ![r].pending = Append(@, Head(req[r].queries)),
                            ![r].queries = Tail(@),
                            ![r].pc = IF Len(req[r].queries) = 1 THEN "tx_commit"
                                      ELSE "tx_stmt"]
       ELSE req' = [req EXCEPT ![r].pc = "tx_rollback",
                               ![r].caught = DriverError("ER_LOCK_DEADLOCK")]
  /\ UNCHANGED <<dbVars, now, started, assigned, revoked, lastGen, call, pool>>

\* await connection.commit()
ExecCommit(r) ==
  /\ req[r].pc = "tx_commit"
  /\ \E ok \in BOOLEAN :
       IF ok THEN /\ users' = Inserted(req[r].pending, "users") @@ users
                  /\ profiles' = Inserted(req[r].pending, "profiles") @@ profiles
                  /\ req' = [req EXCEPT ![r].pc = "tx_release", ![r].pending = <<>>]
       ELSE /\ UNCHANGED <<users, profiles>>
            /\ req' = [req EXCEPT ![r].pc = "tx_rollback",
                                  ![r].caught = DriverError("PROTOCOL_CONNECTION_LOST")]
  /\ UNCHANGED <<categories, subcategories, transactions, files, uuidCount,
                 now, started, assigned, revoked, lastGen, call, pool>>

\* catch (error) { await connection.rollback(); throw error }: the pending
\* statements are dropped by ROLLBACK, or by the server when ROLLBACK cannot
\* reach it; a failing rollback throws its own error in place of the caught one
ExecRollback(r) ==
  /\ req[r].pc = "tx_rollback"
  /\ \E ok \in BOOLEAN :
       req' = [req EXCEPT ![r].pc = "tx_release", ![r].pending = <<>>,
                          ![r].caught = IF ok THEN @ ELSE DriverError("ROLLBACK_FAILED")]
  /\ UNCHANGED <<dbVars, now, started, assigned, revoked, lastGen, call, pool>>

\* a release placed after commit, inside try
ExecReleaseInTry(r) ==
  /\ req[r].pc = "tx_release"
  /\ pool' = IF req[r].caught = NoError THEN pool - 1 ELSE pool
  /\ IF req[r].caught = NoError THEN Goto(r, "cu_sel") ELSE Throw(r, req[r].caught)
  /\ UNCHANGED <<dbVars, now, started, assigned, revoked, lastGen, call>>

\* finally { connection.release() }, then the return or the throw
ExecRelease(r) ==
  /\ req[r].pc = "tx_release"
  /\ pool' = pool - 1
  /\ IF req[r].caught = NoError THEN Goto(r, "cu_sel") ELSE Throw(r, req[r].caught)
  /\ UNCHANGED <<dbVars, now, started, assigned, revoked, lastGen, call>>

(***************************************************************************)
(* POST /api/users                                                         *)
(***************************************************************************)
\* SELECT id FROM users WHERE email = ?, bcrypt.hash, uuidv4() and the two
\* queries handed to executeTransaction
PostUserCheckEmail(r) ==
  /\ req[r].pc = "cu_chk"
  /\ LET b == req[r].body
         email == NormalizeEmail(b.email)
     IN IF \E u \in DOMAIN users : users[u].email = email
          THEN /\ Throw(r, AppError(409, "EMAIL_EXISTS"))
               /\ UNCHANGED uuidCount
          ELSE /\ uuidCount < MaxUuid
               /\ uuidCount' = uuidCount + 1
               /\ req' = [req EXCEPT
                     ![r].pc = "tx_conn",
                     ![r].current = Uuidv4,
                     ![r].queries =
                        <<[table |-> "users", id |-> Uuidv4,
                           row |-> [email |-> email, password_hash |-> Hash(b.password)]],
                          [table |-> "profiles", id |-> Uuidv4,
                           row |-> Profile(email, b.role, 1)]>>]
  /\ UNCHANGED <<users, profiles, categories, subcategories, transactions, files,
                 now, started, assigned, revoked, lastGen, call, pool>>

\* SELECT ... FROM users u JOIN profiles p ON u.id = p.id WHERE u.id = ?, response
PostUserSelect(r) ==
  /\ req[r].pc = "cu_sel"
  /\ Respond(r, 201)
  /\ UNCHANGED <<dbVars, now, started, assigned, revoked, lastGen, call, pool>>

(***************************************************************************)
(* PUT /api/users/:id/reset-password                                       *)
(***************************************************************************)
\* SELECT id FROM users WHERE id = ?
UserRows(id) == {u \in DOMAIN users : u = id}

ResetPasswordFind(r) ==
  /\ req[r].pc = "rp_get"
  /\ IF req[r].body.newPassword \in {"undefined", "short"}
       THEN Throw(r, AppError(400, "INVALID_PASSWORD"))
     ELSE IF UserRows(req[r].id) = {} THEN Throw(r, AppError(404, "USER_NOT_FOUND"))
     ELSE IF req[r].id = req[r].user.id
       THEN Throw(r, AppError(400, "CANNOT_RESET_OWN_PASSWORD"))
     ELSE Goto(r, "rp_upd")
  /\ UNCHANGED <<dbVars, now, started, assigned, revoked, lastGen, call, pool>>

\* UPDATE users SET password_hash = ? WHERE id = ?
ResetPasswordUpdate(r) ==
  /\ req[r].pc = "rp_upd"
  /\ users' = [u \in DOMAIN users |->
                 IF u = req[r].id
                   THEN [users[u] EXCEPT !.password_hash = Hash(req[r].body.newPassword)]
                   ELSE users[u]]
  /\ Respond(r, 200)
  /\ UNCHANGED <<profiles, categories, subcategories, transactions, files, uuidCount,
                 now, started, assigned, revoked, lastGen, call, pool>>

(***************************************************************************)
(* POST /api/auth/login and GET /api/auth/me                               *)
(***************************************************************************)
\* generateToken with every token of type access
GenerateTokenAccessOnly(userId, type) ==
  SignedToken(userId, "access", now + (IF type = "refresh" THEN 7 ELSE 1))

\* generateToken(userId, type): expiresIn '7d' for refresh, '24h' otherwise
GenerateToken(userId, type) ==
  SignedToken(userId, type, now + (IF type = "refresh" THEN 7 ELSE 1))

\* bcrypt.compare(password, hash)
VerifyPassword(password, hash) == hash = Hash(password)

\* SELECT u.id, u.email, u.password_hash, p.name, p.role, p.status
\* FROM users u JOIN profiles p ON u.id = p.id WHERE u.email = ?
LoginRows(email) ==
  {[id |-> u, password_hash |-> users[u].password_hash, status |-> profiles[u].status] :
     u \in {x \in DOMAIN users \cap DOMAIN profiles : users[x].email = email}}

LoginFind(r) ==
  /\ req[r].pc = "li_get"
  /\ LET rows == LoginRows(NormalizeEmail(req[r].body.email)) IN
       IF rows = {} THEN Throw(r, AppError(401, "INVALID_CREDENTIALS"))
       ELSE LET user == CHOOSE u \in rows : TRUE IN
         IF user.status = 0 THEN Throw(r, AppError(401, "ACCOUNT_DEACTIVATED"))
         ELSE IF ~VerifyPassword(req[r].body.password, user.password_hash)
           THEN Throw(r, AppError(401, "INVALID_CREDENTIALS"))
         ELSE req' = [req EXCEPT ![r].pc = "li_upd", ![r].current = user.id]
  /\ UNCHANGED <<dbVars, now, started, assigned, revoked, lastGen, call, pool>>

\* UPDATE profiles SET last_login = NOW() WHERE id = ?, then the tokens
LoginUpdate(r) ==
  /\ req[r].pc = "li_upd"
  /\ profiles' = [p \in DOMAIN profiles |->
                    IF p = req[r].current
                      THEN [profiles[p] EXCEPT !.last_login = [fmt |-> "time", n |-> now]]
                      ELSE profiles[p]]
  /\ req' = [req EXCEPT ![r] =
               [Succeeded(req[r], 200) EXCEPT
                  !.token = GenerateToken(req[r].current, "access"),
                  !.refreshToken = GenerateToken(req[r].current, "refresh")]]
  /\ UNCHANGED <<users, categories, subcategories, transactions, files, uuidCount,
                 now, started, assigned, revoked, lastGen, call, pool>>

\* USER_WITH_PROFILE_QUERY
MeFind(r) ==
  /\ req[r].pc = "me_get"
  /\ IF req[r].user.id \in DOMAIN users \cap DOMAIN profiles THEN Respond(r, 200)
     ELSE Throw(r, AppError(404, "USER_NOT_FOUND"))
  /\ UNCHANGED <<dbVars, now, started, assigned, revoked, lastGen, call, pool>>

\* a client presents a token a login response gave it
ReceiveWithIssuedToken(r) ==
  \E r2 \in Slots :
    /\ req[r2].op = "POST /auth/login" /\ req[r2].pc = "done" /\ req[r2].status = 200
    /\ \E tok \in {req[r2].token, req[r2].refreshToken} :
         Receive(r, Request("GET /auth/me", Bearer(tok), Null, NoTxnId, EmptyBody))

(***************************************************************************)
(* POST /api/auth/refresh and POST /api/auth/change-password.  The module  *)
(* of the auth routes binds the names below and no others; a handler that  *)
(* evaluates another free name throws a ReferenceError, which its catch    *)
(* passes to the error handler.                                            *)
(***************************************************************************)
AuthRoutesScope ==
  {"express", "executeQuery", "AppError", "verifyToken", "validateLogin",
   "validateChangePassword", "successResponse", "findResourceOrFail",
   "USER_WITH_PROFILE_QUERY", "generateAccessToken", "generateRefreshToken",
   "verifyPassword", "hashPassword", "formatUserResponse", "router"}

ReferenceError == [name |-> "ReferenceError", code |-> "", statusCode |-> 0, details |-> <<>>]

\* an error thrown by jwt.verify, as the handler's catch passes it on
JwtError(name) == [name |-> name, code |-> "", statusCode |-> 0, details |-> <<>>]

\* the handler of refresh up to its SELECT: the check of the body, jwt.verify,
\* the check of decoded.type
RefreshVerify(r) ==
  /\ req[r].pc = "rf_get"
  /\ LET refreshToken == req[r].body.refreshToken
         decoded == JwtVerify(refreshToken, now)
     IN IF refreshToken.form = "empty"
          THEN Throw(r, AppError(400, "REFRESH_TOKEN_REQUIRED"))
        ELSE IF "jwt" \notin AuthRoutesScope THEN Throw(r, ReferenceError)
        ELSE IF decoded.name # "payload" THEN Throw(r, JwtError(decoded.name))
        ELSE IF decoded.type # "refresh"
          THEN Throw(r, AppError(401, "INVALID_REFRESH_TOKEN"))
        ELSE req' = [req EXCEPT ![r].pc = "rf_sel", ![r].current = decoded.userId]
  /\ UNCHANGED <<dbVars, now, started, assigned, revoked, lastGen, call, pool>>

\* the rest of the handler of refresh, which no request reaches: SELECT ... WHERE
\* u.id = ? AND p.status = 1, generateToken, generateRefreshToken, res.json
RefreshSelect(r) ==
  /\ req[r].pc = "rf_sel"
  /\ IF ActiveUserRows(req[r].current) = {}
       THEN Throw(r, AppError(401, "USER_NOT_FOUND"))
     ELSE IF "generateToken" \notin AuthRoutesScope THEN Throw(r, ReferenceError)
     ELSE req' = [req EXCEPT ![r] =
                    [Succeeded(req[r], 200) EXCEPT
                       !.token = GenerateToken(req[r].current, "access"),
                       !.refreshToken = GenerateToken(req[r].current, "refresh")]]
  /\ UNCHANGED <<dbVars, now, started, assigned, revoked, lastGen, call, pool>>

\* SELECT password_hash FROM users WHERE id = ?, then bcrypt.compare
ChangePasswordFind(r) ==
  /\ req[r].pc = "cp_get"
  /\ IF UserRows(req[r].user.id) = {} THEN Throw(r, AppError(404, "USER_NOT_FOUND"))
     ELSE IF "bcrypt" \notin AuthRoutesScope THEN Throw(r, ReferenceError)
     ELSE IF ~VerifyPassword(req[r].body.currentPassword,
                             users[req[r].user.id].password_hash)
       THEN Throw(r, AppError(400, "INVALID_CURRENT_PASSWORD"))
     ELSE Goto(r, "cp_upd")
  /\ UNCHANGED <<dbVars, now, started, assigned, revoked, lastGen, call, pool>>

\* the rest of the handler of change-password, which no request reaches:
\* bcrypt.hash, UPDATE users SET password_hash = ? WHERE id = ?
ChangePasswordUpdate(r) ==
  /\ req[r].pc = "cp_upd"
  /\ users' = [u \in DOMAIN users |->
                 IF u = req[r].user.id
                   THEN [users[u] EXCEPT !.password_hash = Hash(req[r].body.newPassword)]
                   ELSE users[u]]
  /\ Respond(r, 200)
  /\ UNCHANGED <<profiles, categories, subcategories, transactions, files, uuidCount,
                 now, started, assigned, revoked, lastGen, call, pool>>

\* time passes
Tick ==
  /\ now < MaxTime
  /\ now' = now + 1
  /\ UNCHANGED <<dbVars, req, started, assigned, revoked, lastGen, call, pool>>

(***************************************************************************)
(* The query builders.  An object is the sequence of its entries in the    *)
(* order of Object.entries; a key is the sequence of its pieces, cut so    *)
(* that "_like", "_date_from" and "_date_to" are pieces of their own; a    *)
(* value is undefined, null, the empty string or a text.                   *)
(***************************************************************************)
\* buildUpdateQuery that leaves out null as well
BuildUpdateQuerySkipNull(table, updates, whereClause, whereParams) ==
  LET kept == SelectSeq(updates, LAMBDA e : e.value \notin {Undef, Null})
      updateFields == [i \in 1..Len(kept) |-> <<kept[i].key, "= ?">>]
      updateValues == [i \in 1..Len(kept) |-> kept[i].value]
  IN IF Len(updateFields) = 0
       THEN [err |-> AppError(400, "NO_UPDATE_FIELDS"), params |-> <<>>,
             query |-> [update |-> table, set |-> <<>>, touch |-> "", where |-> ""]]
       ELSE [err |-> NoError, params |-> updateValues \o whereParams,
             query |-> [update |-> table, set |-> updateFields,
                        touch |-> "updated_at = NOW()", where |-> whereClause]]

\* buildUpdateQuery: the query as the sequence of its parts, and the parameters
BuildUpdateQuery(table, updates, whereClause, whereParams) ==
  LET kept == SelectSeq(updates, LAMBDA e : e.value # Undef)
      updateFields == [i \in 1..Len(kept) |-> <<kept[i].key, "= ?">>]
      updateValues == [i \in 1..Len(kept) |-> kept[i].value]
  IN IF Len(updateFields) = 0
       THEN [err |-> AppError(400, "NO_UPDATE_FIELDS"), params |-> <<>>,
             query |-> [update |-> table, set |-> <<>>, touch |-> "", where |-> ""]]
       ELSE [err |-> NoError, params |-> updateValues \o whereParams,
             query |-> [update |-> table, set |-> updateFields,
                        touch |-> "updated_at = NOW()", where |-> whereClause]]

\* key.includes(piece)
Includes(key, piece) == \E i \in 1..Len(key) : key[i] = piece

\* key.replace(piece, ''): the first occurrence is removed
Replace(key, piece) ==
  LET i == CHOOSE j \in 1..Len(key) :
             key[j] = piece /\ \A k \in 1..(j - 1) : key[k] # piece
  IN SubSeq(key, 1, i - 1) \o SubSeq(key, i + 1, Len(key))

\* the predicate and the parameter buildSearchQuery makes of one filter; the
\* parameter is the value, between "%" and "%" for LIKE
SearchClause(key, value) ==
  IF Includes(key, "_like")
    THEN [column |-> Replace(key, "_like"), op |-> "LIKE ?", param |-> [text |-> value, wrap |-> "%"]]
  ELSE IF Includes(key, "_date_from")
    THEN [column |-> Replace(key, "_date_from"), op |-> ">= ?", param |-> [text |-> value, wrap |-> ""]]
  ELSE IF Includes(key, "_date_to")
    THEN [column |-> Replace(key, "_date_to"), op |-> "<= ?", param |-> [text |-> value, wrap |-> ""]]
  ELSE [column |-> key, op |-> "= ?", param |-> [text |-> value, wrap |-> ""]]

\* buildSearchQuery: baseQuery is the sequence of its words
BuildSearchQuery(baseQuery, filters, baseParams) ==
  LET used == SelectSeq(filters, LAMBDA e : e.value \notin {Undef, Null, EmptyStr})
      clauses == [i \in 1..Len(used) |-> SearchClause(used[i].key, used[i].value)]
      whereClauses == [i \in 1..Len(used) |-> <<clauses[i].column, clauses[i].op>>]
      queryParams == [i \in 1..Len(baseParams) |-> [text |-> baseParams[i], wrap |-> ""]]
                     \o [i \in 1..Len(used) |-> clauses[i].param]
  IN [query |-> baseQuery,
      link |-> IF Len(whereClauses) = 0 THEN ""
               ELSE IF \E i \in 1..Len(baseQuery) : baseQuery[i] = "WHERE" THEN "AND"
               ELSE "WHERE",
      where |-> whereClauses,
      params |-> queryParams]

BuildUpdate ==
  /\ call.fn = "buildUpdateQuery" /\ ~call.returned
  /\ call' = [call EXCEPT !.returned = TRUE,
                          !.result = BuildUpdateQuery(call.table, call.entries,
                                                      call.where, call.params)]
  /\ UNCHANGED <<dbVars, now, req, started, assigned, revoked, lastGen, pool>>

BuildSearch ==
  /\ call.fn = "buildSearchQuery" /\ ~call.returned
  /\ call' = [call EXCEPT !.returned = TRUE,
                          !.result = BuildSearchQuery(call.base, call.entries, call.params)]
  /\ UNCHANGED <<dbVars, now, req, started, assigned, revoked, lastGen, pool>>

(***************************************************************************)
(* The allocator called on its own, on a table of any content.             *)
(***************************************************************************)
GenerateId ==
  /\ lastGen = NoTxnId
  /\ lastGen' = GenerateNextTransactionId(transactions)
  /\ UNCHANGED <<dbVars, now, req, started, assigned, revoked, call, pool>>

(***************************************************************************)
(* Initial states and the requests of each specification.                  *)
(***************************************************************************)

\* an administrator, a manager and a user of neither role (any other role string),
\* all active
StaffUsers == (Uuid(1) :> Account("ana@x.pt")) @@ (Uuid(2) :> Account("rui@x.pt"))
              @@ (Uuid(3) :> Account("eva@x.pt"))
StaffProfiles == (Uuid(1) :> Profile("ana@x.pt", "administrador", 1))
                 @@ (Uuid(2) :> Profile("rui@x.pt", "gerente", 1))
                 @@ (Uuid(3) :> Profile("eva@x.pt", "visualizador", 1))

\* the Authorization header of a user holding an unexpired access token
TokenOf(userId) == Bearer(SignedToken(userId, "access", MaxTime + 1))

RECURSIVE SeqOfSet(_)
SeqOfSet(S) == IF S = {} THEN <<>>
               ELSE LET x == CHOOSE y \in S : TRUE IN <<x>> \o SeqOfSet(S \ {x})

TransactionRow(id, category_id, subcategory_id) ==
  [id |-> id, category_id |-> category_id, subcategory_id |-> subcategory_id,
   receipt_url |-> Null, created_by |-> Uuid(1), date |-> IsoDate(1), created_at |-> 0]

InitCommon ==
  /\ users = StaffUsers
  /\ profiles = StaffProfiles
  /\ files = {}
  /\ uuidCount = 0
  /\ now = 0
  /\ req = [r \in Slots |-> Idle]
  /\ started = 0
  /\ revoked = {}
  /\ lastGen = NoTxnId
  /\ call = NoCall
  /\ pool = 0

\* ids a transactions table may hold after earlier creations and deletions
SeedIds == {TxnId(<<0, 0, 1>>), TxnId(<<0, 0, 9>>), TxnId(<<0, 4, 5>>), TxnId(<<0, 9, 9>>),
            TxnId(<<1, 0, 0>>), TxnId(<<9, 9, 9>>), TxnId(<<1, 0, 0, 0>>)}

InitGenId ==
  /\ InitCommon
  /\ categories = << >>
  /\ subcategories = << >>
  /\ \E S \in SUBSET SeedIds :
       /\ transactions = SeqOfSet({TransactionRow(id, Null, Null) : id \in S})
       /\ assigned = SeqOfSet(S)

SpecGenId == InitGenId /\ [][GenerateId]_vars

ValidTransaction ==
  [EmptyBody EXCEPT !.amount = 5, !.type = "entrada", !.description = "compra",
                    !.date = IsoDate(1)]

TxnRequests ==
  {Request("POST /transactions", h, Null, NoTxnId, b) :
     h \in {TokenOf(Uuid(1)), TokenOf(Uuid(3))},
     b \in {ValidTransaction, [ValidTransaction EXCEPT !.amount = 0]}}
  \cup
  {Request("DELETE /transactions/:id", TokenOf(Uuid(2)), Null, id, EmptyBody) :
     id \in {TxnId(<<0, 0, 1>>), TxnId(<<0, 0, 2>>), TxnId(<< >>)}}

InitTxn ==
  /\ InitCommon
  /\ categories = << >>
  /\ subcategories = << >>
  /\ transactions = << >>
  /\ assigned = << >>

ReceiveTxn(r) == \E q \in TxnRequests : Receive(r, q)

NextTxn ==
  \E r \in Slots :
    \/ ReceiveTxn(r)
    \/ PostTransactionCheckCategory(r)
    \/ PostTransactionCheckSubcategory(r)
    \/ PostTransactionGenerateId(r)
    \/ PostTransactionInsert(r)
    \/ DeleteTransactionFind(r)
    \/ DeleteTransactionFile(r)
    \/ DeleteTransactionRow(r)

SpecTxn == InitTxn /\ [][NextTxn]_vars

(***************************************************************************)
(* The catalogue: a datastore holding categories, subcategories and        *)
(* transactions that satisfy the data model's invariants, and requests to  *)
(* the category, subcategory and transaction routes.                       *)
(***************************************************************************)
Category(name) == [name |-> name]
Subcategory(name, category_id) == [name |-> name, category_id |-> category_id]

InitCat ==
  /\ InitCommon
  /\ categories = (Uuid(11) :> Category("aa")) @@ (Uuid(12) :> Category("bb"))
                  @@ (Uuid(13) :> Category("cc")) @@ (CatSlug(1) :> Category("dd"))
  /\ subcategories = (Uuid(21) :> Subcategory("s1", Uuid(11)))
                     @@ (SubSlug(1) :> Subcategory("s2", CatSlug(1)))
  /\ transactions = <<TransactionRow(TxnId(<<0, 0, 1>>), Uuid(11), Uuid(21)),
                      TransactionRow(TxnId(<<0, 0, 2>>), Uuid(12), Null)>>
  /\ assigned = <<TxnId(<<0, 0, 1>>), TxnId(<<0, 0, 2>>)>>

CatRequests ==
  LET admin == TokenOf(Uuid(1))
      manager == TokenOf(Uuid(2))
  IN
  {Request("DELETE /categories/:id", admin, id, NoTxnId, EmptyBody) :
     id \in {Uuid(11), Uuid(12), Uuid(13), CatSlug(1)}}
  \cup
  {Request("POST /categories", manager, Null, NoTxnId, [EmptyBody EXCEPT !.name = n]) :
     n \in {"aa", "ee"}}
  \cup
  {Request("POST /subcategories", manager, Null, NoTxnId,
           [EmptyBody EXCEPT !.name = "s1", !.category_id = c]) :
     c \in {Uuid(11), Uuid(13)}}
  \cup
  {Request("PUT /subcategories/:id", manager, Uuid(21), NoTxnId,
           [EmptyBody EXCEPT !.name = "s1", !.category_id = c]) :
     c \in {Uuid(12), Uuid(13)}}
  \cup
  {Request("DELETE /subcategories/:id", admin, id, NoTxnId, EmptyBody) :
     id \in {Uuid(21), Uuid(100)}}

CatTxnRequests ==
  {Request("POST /transactions", TokenOf(Uuid(1)), Null, NoTxnId,
           [ValidTransaction EXCEPT !.category_id = c, !.subcategory_id = sc]) :
     c \in {CatSlug(1), Uuid(11)}, sc \in {SubSlug(1)}}
  \cup
  {Request("PUT /transactions/:id", TokenOf(Uuid(2)), Null, TxnId(<<0, 0, 2>>),
           [ValidTransaction EXCEPT !.category_id = CatSlug(1)])}

CategorySteps(r) ==
  \/ PostCategoryCheckName(r)
  \/ PostCategoryInsert(r)
  \/ DeleteCategoryFind(r)
  \/ DeleteCategoryCountSubcategories(r)
  \/ DeleteCategoryCountTransactions(r)
  \/ DeleteCategoryRow(r)

SubcategorySteps(r) ==
  \/ PostSubcategoryCheckCategory(r)
  \/ PostSubcategoryCheckName(r)
  \/ PostSubcategoryInsert(r)
  \/ PutSubcategoryFind(r)
  \/ PutSubcategoryCheckCategory(r)
  \/ PutSubcategoryCheckName(r)
  \/ PutSubcategoryUpdate(r)
  \/ DeleteSubcategoryFind(r)
  \/ DeleteSubcategoryCountTransactions(r)
  \/ DeleteSubcategoryRow(r)

TransactionSteps(r) ==
  \/ PostTransactionCheckCategory(r)
  \/ PostTransactionCheckSubcategory(r)
  \/ PostTransactionGenerateId(r)
  \/ PostTransactionInsert(r)
  \/ PutTransactionFind(r)
  \/ PutTransactionCheckCategory(r)
  \/ PutTransactionCheckSubcategory(r)
  \/ PutTransactionFile(r)
  \/ PutTransactionUpdate(r)

ReceiveCat(r) == \E q \in CatRequests \cup CatTxnRequests : Receive(r, q)

NextCat ==
  \E r \in Slots :
    \/ ReceiveCat(r)
    \/ CategorySteps(r)
    \/ SubcategorySteps(r)
    \/ TransactionSteps(r)

\* requests served concurrently
SpecCat == InitCat /\ [][NextCat]_vars

(***************************************************************************)
(* The API alone, from empty tables: categories and subcategories are      *)
(* created, and the ids their responses carry are sent back as the         *)
(* category_id and subcategory_id of transactions, as the category of a    *)
(* subcategory and as the :id of a deletion.                               *)
(***************************************************************************)
IdRequests ==
  {Request("POST /categories", TokenOf(Uuid(2)), Null, NoTxnId, [EmptyBody EXCEPT !.name = "aa"]),
   Request("POST /transactions", TokenOf(Uuid(2)), Null, NoTxnId, ValidTransaction),
   Request("PUT /transactions/:id", TokenOf(Uuid(2)), Null, TxnId(<<0, 0, 1>>), ValidTransaction)}

\* the requests a client makes with the id of the category a response gave it
WithCategoryId(id) ==
  {Request("POST /transactions", TokenOf(Uuid(2)), Null, NoTxnId,
           [ValidTransaction EXCEPT !.category_id = id]),
   Request("PUT /transactions/:id", TokenOf(Uuid(2)), Null, TxnId(<<0, 0, 1>>),
           [ValidTransaction EXCEPT !.category_id = id]),
   Request("POST /subcategories", TokenOf(Uuid(2)), Null, NoTxnId,
           [EmptyBody EXCEPT !.name = "s1", !.category_id = id]),
   Request("DELETE /categories/:id", TokenOf(Uuid(1)), id, NoTxnId, EmptyBody)}

ReceiveWithCreatedId(r) ==
  \E r2 \in Slots :
    /\ req[r2].pc = "done" /\ req[r2].status = 201
    /\ \/ /\ req[r2].op = "POST /categories"
          /\ \E q \in WithCategoryId(req[r2].current) : Receive(r, q)
       \/ /\ req[r2].op = "POST /subcategories"
          /\ Receive(r, Request("POST /transactions", TokenOf(Uuid(2)), Null, NoTxnId,
                                [ValidTransaction EXCEPT
                                   !.category_id = req[r2].body.category_id,
                                   !.subcategory_id = req[r2].current]))

NextIds ==
  \E r \in Slots :
    \/ \E q \in IdRequests : Receive(r, q)
    \/ ReceiveWithCreatedId(r)
    \/ PostCategoryCheckName(r)
    \/ PostCategoryInsert(r)
    \/ DeleteCategoryFind(r)
    \/ DeleteCategoryCountSubcategories(r)
    \/ DeleteCategoryCountTransactions(r)
    \/ DeleteCategoryRow(r)
    \/ PostSubcategoryCheckCategory(r)
    \/ PostSubcategoryCheckName(r)
    \/ PostSubcategoryInsert(r)
    \/ TransactionSteps(r)

SpecIds == InitTxn /\ [][NextIds]_vars

\* a request arrives while no other request is being served
ReceiveAlone(r) ==
  /\ \A o \in Slots \ {r} : req[o].pc \in {"idle", "done"}
  /\ \E q \in CatRequests : Receive(r, q)

NextCatSeq ==
  \E r \in Slots :
    \/ ReceiveAlone(r)
    \/ CategorySteps(r)
    \/ SubcategorySteps(r)

\* requests served one after the other
SpecCatSeq == InitCat /\ [][NextCatSeq]_vars

(***************************************************************************)
(* The user administration: two administrators and a third user, requests  *)
(* to the admin routes of /api/users with every kind of Authorization      *)
(* header, and a clock against which tokens expire.                        *)
(***************************************************************************)
InitUsers ==
  /\ users = StaffUsers
  /\ profiles = [StaffProfiles EXCEPT ![Uuid(2)].role = "administrador"]
  /\ files = {}
  /\ uuidCount = 0
  /\ now = 0
  /\ req = [r \in Slots |-> Idle]
  /\ started = 0
  /\ revoked = {}
  /\ lastGen = NoTxnId
  /\ call = NoCall
  /\ pool = 0
  /\ categories = << >>
  /\ subcategories = << >>
  /\ transactions = << >>
  /\ assigned = << >>

\* headers verifyToken rejects whatever the datastore holds
BadHeaders ==
  {NoHeader, BasicHeader, Bearer(EmptyToken), Bearer(GarbageToken),
   Bearer(ForgedToken(Uuid(1)))}

\* a token of the first administrator that expires at time 1
ExpiringToken == Bearer(SignedToken(Uuid(1), "access", MaxTime - 1))

UserRequests ==
  LET admin == TokenOf(Uuid(1))
      StatusBody(v) == [EmptyBody EXCEPT !.status = v]
      PasswordBody(v) == [EmptyBody EXCEPT !.newPassword = v]
  IN
  {Request("PUT /users/:id", admin, Uuid(1), NoTxnId, StatusBody("false")),
   Request("PUT /users/:id", TokenOf(Uuid(2)), Uuid(1), NoTxnId, StatusBody("true")),
   Request("PUT /users/:id", admin, Uuid(3), NoTxnId, EmptyBody),
   Request("PUT /users/:id/reset-password", admin, Uuid(1), NoTxnId, PasswordBody("long-enough")),
   Request("PUT /users/:id/reset-password", admin, Uuid(3), NoTxnId, PasswordBody("long-enough")),
   Request("PUT /users/:id/reset-password", admin, Uuid(3), NoTxnId, PasswordBody("short")),
   Request("DELETE /users/:id", TokenOf(Uuid(2)), Uuid(1), NoTxnId, EmptyBody),
   Request("DELETE /users/:id/deactivate", TokenOf(Uuid(2)), Uuid(1), NoTxnId, EmptyBody),
   Request("DELETE /users/:id/deactivate", TokenOf(Uuid(3)), Uuid(1), NoTxnId, EmptyBody),
   Request("DELETE /users/:id/deactivate", ExpiringToken, Uuid(3), NoTxnId, EmptyBody)}
  \cup
  {Request(op, admin, id, NoTxnId, EmptyBody) :
     op \in {"DELETE /users/:id/deactivate", "DELETE /users/:id"}, id \in {Uuid(1), Uuid(3)}}
  \cup
  {Request("DELETE /users/:id", h, Uuid(3), NoTxnId, EmptyBody) : h \in BadHeaders}
  \cup
  {Request("POST /transactions", h, Null, NoTxnId, ValidTransaction) : h \in BadHeaders}

ReceiveUsers(r) == \E q \in UserRequests : Receive(r, q)

NextUsers ==
  \/ Tick
  \/ \E r \in Slots :
       \/ ReceiveUsers(r)
       \/ PutUserFind(r)
       \/ PutUserUpdate(r)
       \/ DeactivateUserFind(r)
       \/ DeactivateUserUpdate(r)
       \/ DeleteUserFind(r)
       \/ DeleteUserStart(r)
       \/ DeleteUserProfile(r)
       \/ DeleteUserAccount(r)
       \/ DeleteUserCommit(r)
       \/ ResetPasswordFind(r)
       \/ ResetPasswordUpdate(r)

SpecUsers == InitUsers /\ [][NextUsers]_vars

(***************************************************************************)
(* Two administrators acting on each other and on themselves through the   *)
(* users routes.                                                           *)
(***************************************************************************)
AdminRequests ==
  {Request(op, TokenOf(pair[1]), pair[2], NoTxnId, EmptyBody) :
     op \in {"DELETE /users/:id/deactivate", "DELETE /users/:id"},
     pair \in {<<Uuid(1), Uuid(2)>>, <<Uuid(2), Uuid(1)>>, <<Uuid(1), Uuid(1)>>}}
  \cup
  {Request("PUT /users/:id", TokenOf(Uuid(1)), Uuid(1), NoTxnId,
           [EmptyBody EXCEPT !.status = "false"]),
   Request("PUT /users/:id", TokenOf(Uuid(1)), Uuid(2), NoTxnId,
           [EmptyBody EXCEPT !.role = "gerente"])}

NextAdmins ==
  \E r \in Slots :
    \/ \E q \in AdminRequests : Receive(r, q)
    \/ PutUserFind(r)
    \/ PutUserUpdate(r)
    \/ DeactivateUserFind(r)
    \/ DeactivateUserUpdate(r)
    \/ DeleteUserFind(r)
    \/ DeleteUserStart(r)
    \/ DeleteUserProfile(r)
    \/ DeleteUserAccount(r)
    \/ DeleteUserCommit(r)

SpecAdmins == InitUsers /\ [][NextAdmins]_vars

(***************************************************************************)
(* Accounts created and hard-deleted by an administrator, two requests at  *)
(* a time, with driver calls that may fail.                                *)
(***************************************************************************)
AccountRequests ==
  {Request("POST /users", TokenOf(Uuid(1)), Null, NoTxnId,
           [EmptyBody EXCEPT !.email = e, !.password = "segredo", !.name = "Nuno",
                             !.role = role]) :
     e \in {"nuno@x.pt", "Ana@X.pt"}, role \in {"gerente", "visualizador"}}
  \cup
  {Request("DELETE /users/:id", TokenOf(Uuid(1)), id, NoTxnId, EmptyBody) :
     id \in {Uuid(3), Uuid(101)}}

NextAccounts ==
  \E r \in Slots :
    \/ \E q \in AccountRequests : Receive(r, q)
    \/ PostUserCheckEmail(r)
    \/ ExecGetConnection(r)
    \/ ExecBegin(r)
    \/ ExecStatement(r)
    \/ ExecCommit(r)
    \/ ExecRollback(r)
    \/ ExecRelease(r)
    \/ PostUserSelect(r)
    \/ DeleteUserFind(r)
    \/ DeleteUserStart(r)
    \/ DeleteUserProfile(r)
    \/ DeleteUserAccount(r)
    \/ DeleteUserAccountFails(r)
    \/ DeleteUserCommit(r)

SpecAccounts == InitUsers /\ [][NextAccounts]_vars

(***************************************************************************)
(* Receipts: transactions with a receipt whose file is stored, with a      *)
(* receipt whose file is missing and with no receipt; receipts replaced,   *)
(* removed and deleted with their transaction.                             *)
(***************************************************************************)
InitFiles ==
  /\ users = StaffUsers
  /\ profiles = StaffProfiles
  /\ files = {1, 2}
  /\ uuidCount = 0
  /\ now = 0
  /\ req = [r \in Slots |-> Idle]
  /\ started = 0
  /\ revoked = {}
  /\ lastGen = NoTxnId
  /\ call = NoCall
  /\ pool = 0
  /\ categories = << >>
  /\ subcategories = << >>
  /\ transactions =
       <<[TransactionRow(TxnId(<<0, 0, 1>>), Null, Null) EXCEPT !.receipt_url = Text(1)],
         [TransactionRow(TxnId(<<0, 0, 2>>), Null, Null) EXCEPT !.receipt_url = Text(3)],
         TransactionRow(TxnId(<<0, 0, 3>>), Null, Null)>>
  /\ assigned = <<TxnId(<<0, 0, 1>>), TxnId(<<0, 0, 2>>), TxnId(<<0, 0, 3>>)>>

FileRequests ==
  LET manager == TokenOf(Uuid(2)) IN
  {Request("PUT /transactions/:id", manager, Null, id,
           [ValidTransaction EXCEPT !.comprovativo_url = url]) :
     id \in {TxnId(<<0, 0, 1>>), TxnId(<<0, 0, 3>>)},
     url \in {Text(9), Text(1), Null, Undef}}
  \cup
  {Request("DELETE /transactions/:id", manager, Null, id, EmptyBody) :
     id \in {TxnId(<<0, 0, 1>>), TxnId(<<0, 0, 3>>)}}
  \cup
  {Request("DELETE /transactions/:id/file", manager, Null, id, EmptyBody) :
     id \in {TxnId(<<0, 0, 1>>), TxnId(<<0, 0, 2>>), TxnId(<<0, 0, 3>>), TxnId(<<0, 0, 4>>)}}

NextFiles ==
  \E r \in Slots :
    \/ \E q \in FileRequests : Receive(r, q)
    \/ PutTransactionFind(r)
    \/ PutTransactionCheckCategory(r)
    \/ PutTransactionCheckSubcategory(r)
    \/ PutTransactionFile(r)
    \/ PutTransactionUpdate(r)
    \/ DeleteTransactionFind(r)
    \/ DeleteTransactionFile(r)
    \/ DeleteTransactionRow(r)
    \/ DeleteFileFind(r)
    \/ DeleteFileUnlink(r)
    \/ DeleteFileUpdate(r)

SpecFiles == InitFiles /\ [][NextFiles]_vars

(***************************************************************************)
(* POST /api/files/upload.  The body's mimetype is the type of the file    *)
(* part of the multipart form ("undefined": the form has no file part).    *)
(* upload.single('file') asks fileFilter before it hands the part to the   *)
(* disk storage, which names the file with a fresh UUID.                   *)
(***************************************************************************)
AllowedTypes == {"image/jpeg", "image/png", "image/gif", "application/pdf"}

\* fileFilter: cb(null, true) or cb(new AppError(..., 400, 'INVALID_FILE_TYPE'), false)
FileFilter(mimetype) ==
  IF mimetype \in AllowedTypes THEN NoError ELSE AppError(400, "INVALID_FILE_TYPE")

\* an upload that writes the file before it asks fileFilter
UploadSingleStoreFirst(r) ==
  /\ req[r].pc = "up_file"
  /\ uuidCount < MaxUuid
  /\ IF req[r].body.mimetype = "undefined"
       THEN Goto(r, "up_res") /\ UNCHANGED <<files, uuidCount>>
       ELSE /\ files' = files \cup {Uuidv4.n}
            /\ uuidCount' = uuidCount + 1
            /\ IF FileFilter(req[r].body.mimetype) # NoError
                 THEN Throw(r, FileFilter(req[r].body.mimetype))
                 ELSE req' = [req EXCEPT ![r].pc = "up_res", ![r].current = Text(Uuidv4.n)]
  /\ UNCHANGED <<users, profiles, categories, subcategories, transactions,
                 now, started, assigned, revoked, lastGen, call, pool>>

\* upload.single('file'): fileFilter, then storage (destination, filename)
UploadSingle(r) ==
  /\ req[r].pc = "up_file"
  /\ uuidCount < MaxUuid
  /\ IF req[r].body.mimetype = "undefined"
       THEN Goto(r, "up_res") /\ UNCHANGED <<files, uuidCount>>
     ELSE IF FileFilter(req[r].body.mimetype) # NoError
       THEN Throw(r, FileFilter(req[r].body.mimetype)) /\ UNCHANGED <<files, uuidCount>>
     ELSE /\ files' = files \cup {Uuidv4.n}
          /\ uuidCount' = uuidCount + 1
          /\ req' = [req EXCEPT ![r].pc = "up_res", ![r].current = Text(Uuidv4.n)]
  /\ UNCHANGED <<users, profiles, categories, subcategories, transactions,
                 now, started, assigned, revoked, lastGen, call, pool>>

\* the handler: 400 NO_FILE_UPLOADED without req.file, else 201 with the file's url
UploadRespond(r) ==
  /\ req[r].pc = "up_res"
  /\ IF ~Truthy(req[r].current)
       THEN Throw(r, AppError(400, "NO_FILE_UPLOADED"))
       ELSE req' = [req EXCEPT ![r] = [Succeeded(req[r], 201) EXCEPT !.data = <<req[r].current>>]]
  /\ UNCHANGED <<dbVars, now, started, assigned, revoked, lastGen, call, pool>>

UploadRequests ==
  {Request("POST /files/upload", hdr, Null, NoTxnId, [EmptyBody EXCEPT !.mimetype = t]) :
     hdr \in {TokenOf(Uuid(1)), TokenOf(Uuid(2)), TokenOf(Uuid(3)), NoHeader,
              Bearer(ForgedToken(Uuid(1)))},
     t \in {"image/png", "application/pdf", "text/html", "undefined"}}

NextUpload ==
  \E r \in Slots :
    \/ \E q \in UploadRequests : Receive(r, q)
    \/ UploadSingle(r)
    \/ UploadRespond(r)

SpecUpload == InitFiles /\ [][NextUpload]_vars

(***************************************************************************)
(* errorHandler called on its own with the errors a handler can pass to    *)
(* next(): errors thrown by the runtime, by the driver and by jsonwebtoken,*)
(* and AppErrors, each with the message and the stack it carries.          *)
(***************************************************************************)
ThrownErrors ==
  {[name |-> n, code |-> c, statusCode |-> sc, details |-> <<>>, message |-> m,
    stack |-> n \o ": " \o m \o " at routes/userRoutes.js:12", errors |-> ""] :
     n \in {"Error", "TypeError", "JsonWebTokenError"},
     c \in {"", "ER_DUP_ENTRY", "ER_LOCK_DEADLOCK", "ECONNREFUSED"},
     sc \in {0, 404},
     m \in {"Cannot read properties of undefined (reading 'id')",
            "connect ECONNREFUSED 10.0.0.5:3306"}}

InitErrors ==
  /\ users = StaffUsers
  /\ profiles = StaffProfiles
  /\ files = {}
  /\ uuidCount = 0
  /\ now = 0
  /\ req = [r \in Slots |-> Idle]
  /\ started = 0
  /\ revoked = {}
  /\ lastGen = NoTxnId
  /\ pool = 0
  /\ categories = << >>
  /\ subcategories = << >>
  /\ transactions = << >>
  /\ assigned = << >>
  /\ call \in {[fn |-> "errorHandler", err |-> e, other |-> o, env |-> env] :
                 e \in ThrownErrors, o \in ThrownErrors,
                 env \in {"production", "development"}}

SpecErrors == InitErrors /\ [][HandleError]_vars

(***************************************************************************)
(* GET /api/profiles/:id and PUT /api/profiles/:id                         *)
(***************************************************************************)
\* the access check of GET, then SELECT ... FROM profiles p WHERE p.id = ?
GetProfileFind(r) ==
  /\ req[r].pc = "gp_get"
  /\ IF req[r].user.id # req[r].id /\ req[r].user.role \notin {"administrador", "gerente"}
       THEN Throw(r, AppError(403, "ACCESS_DENIED"))
     ELSE IF ProfileRows(req[r].id) = {}
       THEN Throw(r, AppError(404, "PROFILE_NOT_FOUND"))
     ELSE req' = [req EXCEPT ![r] = [Succeeded(req[r], 200)
                                       EXCEPT !.data = <<profiles[req[r].id]>>]]
  /\ UNCHANGED <<dbVars, now, started, assigned, revoked, lastGen, call, pool>>

\* the access check of PUT letting the manager through as well
PutProfileFindManagerToo(r) ==
  /\ req[r].pc = "pp_get"
  /\ IF req[r].user.id # req[r].id /\ req[r].user.role \notin {"administrador", "gerente"}
       THEN Throw(r, AppError(403, "ACCESS_DENIED"))
     ELSE IF ProfileRows(req[r].id) = {}
       THEN Throw(r, AppError(404, "PROFILE_NOT_FOUND"))
     ELSE IF req[r].body.name = "undefined" /\ req[r].body.phone = "undefined"
       THEN Throw(r, AppError(400, "NO_UPDATE_FIELDS"))
     ELSE Goto(r, "pp_upd")
  /\ UNCHANGED <<dbVars, now, started, assigned, revoked, lastGen, call, pool>>

\* the access check of PUT, SELECT id FROM profiles WHERE id = ?, updateFields
PutProfileFind(r) ==
  /\ req[r].pc = "pp_get"
  /\ IF req[r].user.id # req[r].id /\ req[r].user.role # "administrador"
       THEN Throw(r, AppError(403, "ACCESS_DENIED"))
     ELSE IF ProfileRows(req[r].id) = {}
       THEN Throw(r, AppError(404, "PROFILE_NOT_FOUND"))
     ELSE IF req[r].body.name = "undefined" /\ req[r].body.phone = "undefined"
       THEN Throw(r, AppError(400, "NO_UPDATE_FIELDS"))
     ELSE Goto(r, "pp_upd")
  /\ UNCHANGED <<dbVars, now, started, assigned, revoked, lastGen, call, pool>>

\* an update that also writes the role the body carries
PutProfileUpdateWithRole(r) ==
  /\ req[r].pc = "pp_upd"
  /\ LET b == req[r].body
         id == req[r].id
     IN profiles' = [p \in DOMAIN profiles |->
                       IF p = id
                         THEN [profiles[p] EXCEPT
                                 !.name = IF b.name # "undefined" THEN b.name ELSE @,
                                 !.phone = IF b.phone # "undefined" THEN b.phone ELSE @,
                                 !.role = IF b.role # "undefined" THEN b.role ELSE @]
                         ELSE profiles[p]]
  /\ Goto(r, "pp_sel")
  /\ UNCHANGED <<users, categories, subcategories, transactions, files, uuidCount,
                 now, started, assigned, revoked, lastGen, call, pool>>

\* UPDATE profiles SET name = ?, phone = ? WHERE id = ? (the fields the body has)
PutProfileUpdate(r) ==
  /\ req[r].pc = "pp_upd"
  /\ LET b == req[r].body
         id == req[r].id
     IN profiles' = [p \in DOMAIN profiles |->
                       IF p = id
                         THEN [profiles[p] EXCEPT
                                 !.name = IF b.name # "undefined" THEN b.name ELSE @,
                                 !.phone = IF b.phone # "undefined" THEN b.phone ELSE @]
                         ELSE profiles[p]]
  /\ Goto(r, "pp_sel")
  /\ UNCHANGED <<users, categories, subcategories, transactions, files, uuidCount,
                 now, started, assigned, revoked, lastGen, call, pool>>

\* SELECT ... FROM profiles p WHERE p.id = ?; res.json({data: updatedProfile[0]})
PutProfileSelect(r) ==
  /\ req[r].pc = "pp_sel"
  /\ req' = [req EXCEPT ![r] =
               [Succeeded(req[r], 200)
                  EXCEPT !.data = IF ProfileRows(req[r].id) = {} THEN <<>>
                                  ELSE <<profiles[req[r].id]>>]]
  /\ UNCHANGED <<dbVars, now, started, assigned, revoked, lastGen, call, pool>>

(***************************************************************************)
(* Profiles read and updated by their owner, by the staff and by others,   *)
(* beside the administrator's updates of users.                            *)
(***************************************************************************)
ProfileRequests ==
  {Request("GET /profiles/:id", hdr, id, NoTxnId, EmptyBody) :
     hdr \in {TokenOf(Uuid(2)), TokenOf(Uuid(3)), NoHeader},
     id \in {Uuid(1), Uuid(3), Text(1)}}
  \cup
  {Request("GET /profiles/:id", TokenOf(Uuid(2)), Uuid(9), NoTxnId, EmptyBody)}
  \cup
  {Request("PUT /profiles/:id", hdr, id, NoTxnId, body) :
     hdr \in {TokenOf(Uuid(1)), TokenOf(Uuid(2)), TokenOf(Uuid(3)), NoHeader},
     id \in {Uuid(3), Uuid(9)},
     body \in {EmptyBody, [EmptyBody EXCEPT !.name = "x"],
               [EmptyBody EXCEPT !.name = "Eva M", !.role = "administrador"]}}
  \cup
  {Request("PUT /users/:id", hdr, Uuid(3), NoTxnId,
           [EmptyBody EXCEPT !.role = "gerente", !.status = st]) :
     hdr \in {TokenOf(Uuid(1)), TokenOf(Uuid(2))},
     st \in {"undefined", "false"}}
  \cup
  {Request("DELETE /users/:id/deactivate", TokenOf(Uuid(1)), Uuid(3), NoTxnId, EmptyBody)}

NextProfiles ==
  \E r \in Slots :
    \/ \E q \in ProfileRequests : Receive(r, q)
    \/ GetProfileFind(r)
    \/ PutProfileFind(r)
    \/ PutProfileUpdate(r)
    \/ PutProfileSelect(r)
    \/ PutUserFind(r)
    \/ PutUserUpdate(r)
    \/ DeactivateUserFind(r)
    \/ DeactivateUserUpdate(r)

SpecProfiles == InitTxn /\ [][NextProfiles]_vars

(***************************************************************************)
(* The query builders called on their own with objects of up to            *)
(* MaxEntries entries.                                                     *)
(***************************************************************************)
\* the objects with distinct keys among `keys` and values among `values`
Objects(keys, values) ==
  {o \in UNION {[1..n -> [key : keys, value : values]] : n \in 0..MaxEntries} :
     \A i, j \in DOMAIN o : i # j => o[i].key # o[j].key}

UpdateCalls ==
  {[fn |-> "buildUpdateQuery", table |-> "profiles", entries |-> o, where |-> "id = ?",
    params |-> wp, returned |-> FALSE, result |-> NoCall] :
     o \in Objects({"name", "phone", "role"}, {Undef, Null, Text(1)}),
     wp \in {<<Uuid(1)>>, << >>}}

SearchCalls ==
  {[fn |-> "buildSearchQuery", base |-> b.query, entries |-> o, params |-> b.params,
    returned |-> FALSE, result |-> NoCall] :
     o \in Objects({<<"name", "_like">>, <<"date", "_date_from">>, <<"date", "_date_to">>,
                    <<"status">>, <<"is", "_like", "d">>},
                   {Undef, Null, EmptyStr, Text(1)}),
     b \in {[query |-> <<"SELECT * FROM t">>, params |-> << >>],
            [query |-> <<"SELECT * FROM t", "WHERE", "a = ?">>, params |-> <<Text(9)>>]}}

InitBuilders ==
  /\ users = StaffUsers
  /\ profiles = StaffProfiles
  /\ files = {}
  /\ uuidCount = 0
  /\ now = 0
  /\ req = [r \in Slots |-> Idle]
  /\ started = 0
  /\ revoked = {}
  /\ lastGen = NoTxnId
  /\ pool = 0
  /\ categories = << >>
  /\ subcategories = << >>
  /\ transactions = << >>
  /\ assigned = << >>
  /\ call \in UpdateCalls \cup SearchCalls

SpecBuilders == InitBuilders /\ [][BuildUpdate \/ BuildSearch]_vars

(***************************************************************************)
(* Lists of transactions requested page by page, over tables of up to      *)
(* MaxRows rows some of which are equal in date and creation time, while a *)
(* row may be deleted.                                                     *)
(***************************************************************************)
ListedRow(k) ==
  [TransactionRow(TxnId(<<0, 0, k>>), IF k % 3 = 0 THEN Uuid(12) ELSE Uuid(11), Null)
     EXCEPT !.date = IsoDate(k % 2), !.created_at = k \div 4]

InitList ==
  /\ users = StaffUsers
  /\ profiles = StaffProfiles
  /\ files = {}
  /\ uuidCount = 0
  /\ now = 0
  /\ req = [r \in Slots |-> Idle]
  /\ started = 0
  /\ revoked = {}
  /\ lastGen = NoTxnId
  /\ call = NoCall
  /\ pool = 0
  /\ categories = (Uuid(11) :> Category("aa")) @@ (Uuid(12) :> Category("bb"))
  /\ subcategories = << >>
  /\ \E n \in 0..MaxRows :
       /\ transactions = [k \in 1..n |-> ListedRow(k)]
       /\ assigned = [k \in 1..n |-> TxnId(<<0, 0, k>>)]

ListRequests ==
  {Request("GET /transactions", TokenOf(Uuid(3)), Null, NoTxnId,
           [EmptyBody EXCEPT !.page = p, !.limit = l, !.category_id = c]) :
     p \in {Undef, IntStr(0), IntStr(2), IntStr(3)},
     l \in {Undef, IntStr(2), IntStr(101)},
     c \in {Undef, Uuid(11)}}
  \cup
  {Request("DELETE /transactions/:id", TokenOf(Uuid(2)), Null, TxnId(<<0, 0, 1>>), EmptyBody)}

NextList ==
  \E r \in Slots :
    \/ \E q \in ListRequests : Receive(r, q)
    \/ ListCount(r)
    \/ ListSelect(r)
    \/ DeleteTransactionFind(r)
    \/ DeleteTransactionFile(r)
    \/ DeleteTransactionRow(r)

SpecList == InitList /\ [][NextList]_vars

(***************************************************************************)
(* The validation layer: transactions posted and put with bodies that      *)
(* break none, one or several rules, and with a well-formed or a           *)
(* malformed :id.                                                          *)
(***************************************************************************)
ValidationRequests ==
  LET bodies == {[ValidTransaction EXCEPT !.amount = a, !.type = t, !.date = d,
                                          !.category_id = c] :
                   a \in {0, 5}, t \in {"entrada", "x"}, d \in {IsoDate(1), Text(1)},
                   c \in {CatSlug(1), Uuid(11)}}
  IN {Request("POST /transactions", TokenOf(Uuid(1)), Null, NoTxnId, b) : b \in bodies}
     \cup
     {Request("PUT /transactions/:id", TokenOf(Uuid(2)), Null, id, b) :
        id \in {TxnId(<<0, 0, 2>>), TxnId(<< >>)}, b \in bodies}

NextValidation ==
  \E r \in Slots :
    \/ \E q \in ValidationRequests : Receive(r, q)
    \/ TransactionSteps(r)

SpecValidation == InitCat /\ [][NextValidation]_vars

(***************************************************************************)
(* Logins with right and wrong credentials, one account deactivated from   *)
(* the start and one deactivated on the way.                               *)
(***************************************************************************)
InitAuth ==
  /\ users = StaffUsers
  /\ profiles = [StaffProfiles EXCEPT ![Uuid(3)].status = 0]
  /\ files = {}
  /\ uuidCount = 0
  /\ now = 0
  /\ req = [r \in Slots |-> Idle]
  /\ started = 0
  /\ revoked = {}
  /\ lastGen = NoTxnId
  /\ call = NoCall
  /\ pool = 0
  /\ categories = << >>
  /\ subcategories = << >>
  /\ transactions = << >>
  /\ assigned = << >>

AuthRequests ==
  {Request("POST /auth/login", NoHeader, Null, NoTxnId,
           [EmptyBody EXCEPT !.email = e, !.password = p]) :
     e \in {"Ana@X.pt", "rui@x.pt", "eva@x.pt", "ze@x.pt", "ana.x.pt"},
     p \in {"secret-ana@x.pt", "secret-rui@x.pt", "secret-eva@x.pt", "12345"}}
  \cup
  {Request("DELETE /users/:id/deactivate", TokenOf(Uuid(1)), Uuid(2), NoTxnId, EmptyBody)}

NextAuth ==
  \/ \E r \in Slots :
       \/ \E q \in AuthRequests : Receive(r, q)
       \/ ReceiveWithIssuedToken(r)
       \/ LoginFind(r)
       \/ LoginUpdate(r)
       \/ MeFind(r)
       \/ DeactivateUserFind(r)
       \/ DeactivateUserUpdate(r)
  \/ Tick

SpecAuth == InitAuth /\ [][NextAuth]_vars

(***************************************************************************)
(* Sessions: tokens presented for refresh (none, a refresh and an access   *)
(* token of an active user, a refresh token of a deactivated user, a       *)
(* forged and an expired token) and passwords changed.                     *)
(***************************************************************************)
SessionRequests ==
  {Request("POST /auth/refresh", NoHeader, Null, NoTxnId,
           [EmptyBody EXCEPT !.refreshToken = tok]) :
     tok \in {EmptyToken, SignedToken(Uuid(1), "refresh", MaxTime + 1),
              SignedToken(Uuid(1), "access", MaxTime + 1),
              SignedToken(Uuid(3), "refresh", MaxTime + 1),
              ForgedToken(Uuid(1)), SignedToken(Uuid(1), "refresh", 0)}}
  \cup
  {Request("POST /auth/change-password", hdr, Null, NoTxnId,
           [EmptyBody EXCEPT !.currentPassword = cur, !.newPassword = new[1],
                             !.confirmPassword = new[2]]) :
     hdr \in {TokenOf(Uuid(1)), TokenOf(Uuid(2)), NoHeader},
     cur \in {"secret-ana@x.pt", "wrong-password"},
     new \in {<<"new-secret", "new-secret">>, <<"12345", "12345">>,
              <<"new-secret", "other-secret">>}}

NextSession ==
  \E r \in Slots :
    \/ \E q \in SessionRequests : Receive(r, q)
    \/ RefreshVerify(r)
    \/ ChangePasswordFind(r)

SpecSession == InitAuth /\ [][NextSession]_vars

(***************************************************************************)
(* Bearer tokens of both kinds, as a login at time 0 issues them (the      *)
(* access token for one unit of time, the refresh token for seven), of the *)
(* administrator, the manager and a deactivated user, presented to routes  *)
(* behind verifyToken alone and behind requireAdmin, as time passes.       *)
(***************************************************************************)
BearerRequests ==
  {Request(route[1], Bearer(SignedToken(u, kind[1], kind[2])), route[2], NoTxnId, EmptyBody) :
     route \in {<<"GET /auth/me", Null>>, <<"GET /profiles/:id", Uuid(2)>>,
                <<"DELETE /users/:id/deactivate", Uuid(2)>>},
     u \in {Uuid(1), Uuid(2), Uuid(3)},
     kind \in {<<"access", 1>>, <<"refresh", 7>>}}

NextBearer ==
  \/ \E r \in Slots :
       \/ \E q \in BearerRequests : Receive(r, q)
       \/ MeFind(r)
       \/ GetProfileFind(r)
       \/ DeactivateUserFind(r)
       \/ DeactivateUserUpdate(r)
  \/ Tick

SpecBearer == InitAuth /\ [][NextBearer]_vars

(***************************************************************************)
(* The role gates: an administrator, a manager and a user of neither role  *)
(* each send a request to a route behind requireAdmin and to a route       *)
(* behind requireAdminOrManager.                                           *)
(***************************************************************************)
GateRequests ==
  {Request("DELETE /users/:id/deactivate", TokenOf(u), Uuid(3), NoTxnId, EmptyBody) :
     u \in {Uuid(1), Uuid(2), Uuid(3)}}
  \cup
  {Request("POST /categories", TokenOf(u), Null, NoTxnId, [EmptyBody EXCEPT !.name = n]) :
     u \in {Uuid(1), Uuid(2), Uuid(3)}, n \in {"aa", "x"}}

NextGates ==
  \E r \in Slots :
    \/ \E q \in GateRequests : Receive(r, q)
    \/ DeactivateUserFind(r)
    \/ DeactivateUserUpdate(r)
    \/ PostCategoryCheckName(r)
    \/ PostCategoryInsert(r)

SpecGates == InitTxn /\ [][NextGates]_vars

(***************************************************************************)
(* Properties of the transaction-id allocator.                             *)
(***************************************************************************)
RECURSIVE Pow10(_)
Pow10(k) == IF k = 0 THEN 1 ELSE 10 * Pow10(k - 1)

RECURSIVE DecimalValueFrom(_, _)
DecimalValueFrom(d, i) ==
  IF i > Len(d) THEN 0 ELSE d[i] * Pow10(Len(d) - i) + DecimalValueFrom(d, i + 1)

\* the number a string of decimal digits denotes
DecimalValue(d) == DecimalValueFrom(d, 1)

MaxOf(S) == CHOOSE m \in S : \A n \in S : n <= m

\* the numeric suffixes of the stored transaction ids
StoredSuffixes == {DecimalValue(id.digits) : id \in TableIds(transactions)}

\* C1: the numeric suffix of every newly assigned transaction id is strictly
\* greater than the suffix of every id assigned earlier, so that no id is ever
\* assigned twice, also after the transaction holding the maximum id was deleted.
C1_IdsStrictlyIncreasing ==
  \A i, j \in 1..Len(assigned) :
    i < j => DecimalValue(assigned[i].digits) < DecimalValue(assigned[j].digits)

\* C2: generateNextTransactionId returns txn-001 on a table without ids; otherwise,
\* with n the numerically largest stored suffix, it returns txn- followed by n+1
\* written in decimal and zero-padded to at least 3 digits (045 -> 046, 999 -> 1000).
C2_NextIdIsMaxPlusOne ==
  lastGen # NoTxnId =>
    /\ lastGen.prefix = "txn-"
    /\ IF StoredSuffixes = {}
         THEN lastGen.digits = <<0, 0, 1>>
         ELSE /\ DecimalValue(lastGen.digits) = MaxOf(StoredSuffixes) + 1
              /\ Len(lastGen.digits) >= 3
              /\ Len(lastGen.digits) > 3 => lastGen.digits[1] # 0
    /\ MaxOf(StoredSuffixes \cup {0}) = 45 => lastGen.digits = <<0, 4, 6>>
    /\ MaxOf(StoredSuffixes \cup {0}) = 999 => lastGen.digits = <<1, 0, 0, 0>>

\* the allocator has run on a table holding txn-999 and txn-1000, where the
\* textual order of the ids differs from the numeric one
C2_Witness ==
  /\ lastGen = TxnId(<<1, 0, 0, 1>>)
  /\ {TxnId(<<9, 9, 9>>), TxnId(<<1, 0, 0, 0>>)} \subseteq TableIds(transactions)

\* C3: a creation whose insert the primary key rejects (another request stored the
\* same id first) ends with 409 DUPLICATE_ENTRY and is not retried; the id is
\* stored exactly once.
C3_DuplicateInsertEndsWith409 ==
  /\ \A i, j \in 1..Len(transactions) :
       i # j => transactions[i].id # transactions[j].id
  /\ \A r \in Slots :
       req[r].err = "ER_DUP_ENTRY" =>
         /\ req[r].op = "POST /transactions"
         /\ req[r].pc = "done"
         /\ req[r].status = 409
         /\ req[r].code = "DUPLICATE_ENTRY"

\* two creations computed the same id; one stored it, the other was rejected
C3_Witness ==
  \E r1, r2 \in Slots :
    /\ r1 # r2
    /\ req[r1].op = "POST /transactions" /\ req[r2].op = "POST /transactions"
    /\ req[r1].transactionId = req[r2].transactionId
    /\ req[r1].pc = "done" /\ req[r1].status = 201
    /\ req[r2].pc = "done" /\ req[r2].status = 409 /\ req[r2].code = "DUPLICATE_ENTRY"
    /\ Cardinality(TransactionRows(req[r1].transactionId)) = 1

(***************************************************************************)
(* Properties of the categories and subcategories.                         *)
(***************************************************************************)
ReferencedBySubcategory(id) ==
  \E s \in DOMAIN subcategories : subcategories[s].category_id = id

CategoryOfTransaction(id) ==
  \E i \in 1..Len(transactions) : transactions[i].category_id = id

\* C4: when requests are served one after the other, a DELETE /categories/:id
\* that reaches its handler for an existing category ends with
\* 400 CATEGORY_HAS_SUBCATEGORIES if a subcategory references the category,
\* otherwise with 400 CATEGORY_IN_USE if a transaction references it, and
\* otherwise deletes the category; in both failure cases the categories table is
\* left unchanged.
C4_DeleteCategoryGuards ==
  [][\A r \in Slots :
       (/\ req[r].op = "DELETE /categories/:id"
        /\ req[r].pc \notin {"idle", "done"}
        /\ req'[r].pc = "done"
        /\ req[r].id \in DOMAIN categories)
       => LET id == req[r].id
              answer == req'[r]
          IN IF ReferencedBySubcategory(id)
               THEN /\ answer.status = 400
                    /\ answer.code = "CATEGORY_HAS_SUBCATEGORIES"
                    /\ categories' = categories
             ELSE IF CategoryOfTransaction(id)
               THEN /\ answer.status = 400
                    /\ answer.code = "CATEGORY_IN_USE"
                    /\ categories' = categories
             ELSE /\ answer.status = 200
                  /\ DOMAIN categories' = DOMAIN categories \ {id}
                  /\ \A c \in DOMAIN categories' : categories'[c] = categories[c]
    ]_vars

\* one deletion was refused for the subcategories of its category, another for
\* the transactions of its category, and a third category was deleted
C4_Witness ==
  /\ \E r1, r2 \in Slots :
       /\ req[r1].op = "DELETE /categories/:id" /\ req[r1].pc = "done"
       /\ req[r1].code = "CATEGORY_HAS_SUBCATEGORIES" /\ req[r1].id \in DOMAIN categories
       /\ req[r2].op = "DELETE /categories/:id" /\ req[r2].pc = "done"
       /\ req[r2].code = "CATEGORY_IN_USE" /\ req[r2].id \in DOMAIN categories
  /\ Uuid(13) \notin DOMAIN categories

\* C5: under any interleaving of concurrent requests every stored subcategory's
\* category_id names a stored category, and every stored transaction's non-null
\* category_id and subcategory_id name stored rows.
C5_ReferentialIntegrity ==
  /\ \A s \in DOMAIN subcategories : subcategories[s].category_id \in DOMAIN categories
  /\ \A i \in 1..Len(transactions) :
       /\ transactions[i].category_id # Null =>
            transactions[i].category_id \in DOMAIN categories
       /\ transactions[i].subcategory_id # Null =>
            transactions[i].subcategory_id \in DOMAIN subcategories

ActsOnSelf(r, ops) ==
  /\ req[r].op \in ops
  /\ req[r].pc \notin {"idle", "done"}
  /\ req'[r] # req[r]
  /\ req[r].id = req[r].user.id

\* the request in slot r ends here with this status and code
EndsWith(r, status, code) ==
  /\ req'[r].pc = "done"
  /\ req'[r].status = status
  /\ req'[r].code = code

\* C7 as stated: an administrator's DELETE /users/:id whose :id is the requester's
\* own id fails with 400 CANNOT_DELETE_SELF and changes neither users nor profiles.
C7_SelfDeleteAlwaysRefused ==
  [][\A r \in Slots :
       ActsOnSelf(r, {"DELETE /users/:id"}) =>
         /\ EndsWith(r, 400, "CANNOT_DELETE_SELF")
         /\ users' = users /\ profiles' = profiles
    ]_vars

\* C7, amended: an administrator's DELETE /users/:id whose :id is the requester's
\* own id changes neither users nor profiles; it fails with 400
\* CANNOT_DELETE_SELF if the requester's profile row is still stored when the
\* handler looks it up, and with 404 USER_NOT_FOUND if a concurrent request
\* deleted that row after the requester was identified.
C7_SelfDeleteRefused ==
  [][\A r \in Slots :
       ActsOnSelf(r, {"DELETE /users/:id"}) =>
         /\ IF req[r].id \in DOMAIN profiles
              THEN EndsWith(r, 400, "CANNOT_DELETE_SELF")
              ELSE EndsWith(r, 404, "USER_NOT_FOUND")
         /\ users' = users /\ profiles' = profiles
    ]_vars

\* an administrator's deletion of the own account was refused, the account is intact
C7_Witness ==
  \E r \in Slots :
    /\ req[r].op = "DELETE /users/:id" /\ req[r].pc = "done"
    /\ req[r].user.role = "administrador" /\ req[r].id = req[r].user.id
    /\ req[r].status = 400 /\ req[r].code = "CANNOT_DELETE_SELF"
    /\ req[r].id \in DOMAIN users /\ req[r].id \in DOMAIN profiles
    /\ profiles[req[r].id].status = 1

\* C8: no step of a handler of the admin routes of /api/users, taken for a
\* request that targets the requester's own id, changes the requester's status,
\* removes the requester's rows or changes the requester's password hash.
C8_NoSelfModification ==
  [][\A r \in Slots :
       ActsOnSelf(r, UserOps) =>
         LET me == req[r].user.id IN
           /\ me \in DOMAIN profiles =>
                me \in DOMAIN profiles' /\ profiles'[me].status = profiles[me].status
           /\ me \in DOMAIN users =>
                me \in DOMAIN users' /\ users'[me].password_hash = users[me].password_hash
    ]_vars

\* a request arrives in slot r
Arrives(r) == started' = started + 1 /\ req'[r] # req[r]

\* the request that arrived in slot r was rejected by verifyToken with this code:
\* no identity is attached and the request is over before any handler
RejectedWith(r, code) ==
  /\ EndsWith(r, 401, code)
  /\ req'[r].user = NoUser

\* C9: a request with no Authorization header, a header that does not start with
\* "Bearer " or an empty token is rejected with 401 NO_TOKEN; a token of bad format
\* or signature with 401 INVALID_TOKEN; an expired token with 401 TOKEN_EXPIRED.
\* No identity is attached to such a request, and a handler only ever runs for a
\* request that carried a well-signed token and was given an identity.
C9_TokenRejections ==
  /\ [][\A r \in Slots :
          Arrives(r) =>
            LET h == req'[r].hdr
                token == h.token
            IN IF h.scheme # "Bearer" \/ token.form = "empty"
                 THEN RejectedWith(r, "NO_TOKEN")
               ELSE IF token.form # "jwt" \/ ~token.sigOk
                 THEN RejectedWith(r, "INVALID_TOKEN")
               ELSE IF now >= token.exp
                 THEN RejectedWith(r, "TOKEN_EXPIRED")
               ELSE req'[r].code \notin {"NO_TOKEN", "INVALID_TOKEN", "TOKEN_EXPIRED"}
      ]_vars
  /\ [](\A r \in Slots :
          req[r].pc \notin {"idle", "done"} =>
            /\ req[r].hdr.scheme = "Bearer"
            /\ req[r].hdr.token.form = "jwt" /\ req[r].hdr.token.sigOk
            /\ req[r].user # NoUser)

\* a request with an empty token and a request with an expired token were rejected,
\* each with its code
C9_Witness ==
  \E r1, r2 \in Slots :
    /\ req[r1].hdr = Bearer(EmptyToken) /\ req[r1].pc = "done"
    /\ req[r1].status = 401 /\ req[r1].code = "NO_TOKEN"
    /\ req[r2].hdr = ExpiringToken /\ req[r2].pc = "done"
    /\ req[r2].status = 401 /\ req[r2].code = "TOKEN_EXPIRED" /\ req[r2].user = NoUser

\* the request that arrives in slot r carries a well-signed, unexpired token
ArrivesWithValidToken(r) ==
  /\ Arrives(r)
  /\ req'[r].hdr.scheme = "Bearer"
  /\ req'[r].hdr.token.form = "jwt" /\ req'[r].hdr.token.sigOk
  /\ now < req'[r].hdr.token.exp

\* C10 as stated: once the deactivation or hard deletion of a user has been
\* committed, every request that arrives afterwards with a token of that user is
\* rejected and its handler never runs.
C10_RevokedForEver ==
  [][\A r \in Slots :
       (ArrivesWithValidToken(r) /\ req'[r].hdr.token.userId \in revoked) =>
         req'[r].pc = "done" /\ req'[r].status = 401
    ]_vars

\* C10, amended: identity is resolved anew for every request.  A request with a
\* valid token is identified, with the role stored at that moment, if and only if
\* a users row joined to a profiles row of status 1 exists for the token's userId
\* when the request arrives; otherwise it is rejected with 401 USER_NOT_FOUND and
\* its handler never runs.  So a request of a deactivated or deleted user is
\* rejected for as long as no PUT /users/:id has set the user's status back.
C10_IdentityResolvedPerRequest ==
  [][\A r \in Slots :
       ArrivesWithValidToken(r) =>
         LET userId == req'[r].hdr.token.userId IN
           IF /\ userId \in DOMAIN users
              /\ userId \in DOMAIN profiles
              /\ profiles[userId].status = 1
             THEN /\ req'[r].user = [id |-> userId, role |-> profiles[userId].role]
                  /\ req'[r].code # "USER_NOT_FOUND"
             ELSE RejectedWith(r, "USER_NOT_FOUND")
    ]_vars

\* a user was deactivated by DELETE /users/:id/deactivate, and a request that
\* arrived afterwards with a valid token of that user was rejected
C10_Witness ==
  \E r1, r2 \in Slots :
    /\ req[r1].op = "DELETE /users/:id/deactivate" /\ req[r1].id = Uuid(3)
    /\ req[r1].pc = "done" /\ req[r1].status = 200
    /\ req[r2].hdr = TokenOf(Uuid(3)) /\ req[r2].pc = "done"
    /\ req[r2].status = 401 /\ req[r2].code = "USER_NOT_FOUND" /\ req[r2].user = NoUser
    /\ Uuid(3) \in revoked /\ profiles[Uuid(3)].status = 0

(***************************************************************************)
(* Properties of the role gates.                                           *)
(***************************************************************************)
\* the request that arrived in slot r went on past its role gate
Proceeds(r) == req'[r].pc # "done" \/ req'[r].code = "VALIDATION_ERROR"

\* C11: for an identified request, requireAdmin lets the request proceed if and
\* only if the resolved role is administrador and otherwise rejects with 403
\* ADMIN_REQUIRED; requireAdminOrManager lets it proceed if and only if the role
\* is administrador or gerente and otherwise rejects with 403
\* INSUFFICIENT_PERMISSIONS; no handler position behind a gate is ever held by a
\* request whose role fails the gate.
C11_RoleGates ==
  /\ [][\A r \in Slots :
          (Arrives(r) /\ req'[r].user # NoUser) =>
            LET role == req'[r].user.role IN
              IF req'[r].op \in UserOps
                THEN IF role = "administrador" THEN Proceeds(r)
                     ELSE EndsWith(r, 403, "ADMIN_REQUIRED")
                ELSE IF role \in {"administrador", "gerente"} THEN Proceeds(r)
                     ELSE EndsWith(r, 403, "INSUFFICIENT_PERMISSIONS")
      ]_vars
  /\ [](\A r \in Slots :
          req[r].pc \notin {"idle", "done"} =>
            IF req[r].op \in UserOps THEN req[r].user.role = "administrador"
            ELSE req[r].user.role \in {"administrador", "gerente"})

\* the manager was refused by requireAdmin and the third user by
\* requireAdminOrManager, both after having been identified
C11_Witness ==
  \E r1, r2 \in Slots :
    /\ req[r1].op = "DELETE /users/:id/deactivate" /\ req[r1].user.role = "gerente"
    /\ req[r1].pc = "done" /\ req[r1].status = 403 /\ req[r1].code = "ADMIN_REQUIRED"
    /\ req[r2].op = "POST /categories" /\ req[r2].user.role = "visualizador"
    /\ req[r2].pc = "done" /\ req[r2].status = 403
    /\ req[r2].code = "INSUFFICIENT_PERMISSIONS"

(***************************************************************************)
(* Properties of login and of the tokens it issues.                        *)
(***************************************************************************)
\* the stored users the credentials of a login body belong to: the email is
\* theirs once lower-cased, the password is the one their hash was made from,
\* and their profile is active
OwnersOf(b) ==
  {u \in DOMAIN users \cap DOMAIN profiles :
     /\ users[u].email = NormalizeEmail(b.email)
     /\ users[u].password_hash = Hash(b.password)
     /\ profiles[u].status = 1}

\* C12: a login with the email and the password of a stored active user is
\* answered 200 with an access token and a refresh token whose payloads, as
\* jwt.verify decodes them, carry the types access and refresh and that user's
\* id; and a request that presents an unexpired token of a login response at a
\* route behind verifyToken, while its user is stored and active, is identified
\* as the user whose credentials the login carried.
C12_LoginRoundTrip ==
  [][\A r \in Slots :
       /\ (req[r].op = "POST /auth/login" /\ req'[r] # req[r] /\ req'[r].pc = "done"
           /\ OwnersOf(req'[r].body) # {})
          => /\ req'[r].status = 200
             /\ LET access == JwtVerify(req'[r].token, now)
                    refresh == JwtVerify(req'[r].refreshToken, now)
                IN /\ access.name = "payload" /\ access.type = "access"
                   /\ refresh.name = "payload" /\ refresh.type = "refresh"
                   /\ access.userId = refresh.userId
                   /\ access.userId \in OwnersOf(req'[r].body)
       /\ (Arrives(r) /\ req'[r].op = "GET /auth/me")
          => \A r2 \in Slots :
               (/\ req[r2].op = "POST /auth/login" /\ req[r2].status = 200
                /\ req'[r].hdr.token \in {req[r2].token, req[r2].refreshToken}
                /\ now < req'[r].hdr.token.exp
                /\ req'[r].hdr.token.userId \in DOMAIN users
                /\ profiles[req'[r].hdr.token.userId].status = 1)
               => /\ req'[r].pc = "me_get"
                  /\ users[req'[r].user.id].email = NormalizeEmail(req[r2].body.email)
    ]_vars

\* a login written with capital letters was answered with tokens, and the request
\* presenting its access token was identified and answered
C12_Witness ==
  \E r1, r2 \in Slots :
    /\ req[r1].op = "POST /auth/login" /\ req[r1].body.email = "Ana@X.pt"
    /\ req[r1].pc = "done" /\ req[r1].status = 200
    /\ req[r2].op = "GET /auth/me" /\ req[r2].hdr.token = req[r1].token
    /\ req[r2].pc = "done" /\ req[r2].status = 200 /\ req[r2].user.id = Uuid(1)

(***************************************************************************)
(* Properties of the validation layer.                                     *)
(***************************************************************************)
\* every rule of its endpoint the request violates, in the order of the route's
\* declaration
RulesViolated(q) ==
  IF q.op = "PUT /transactions/:id"
    THEN ValidateTransactionId(q.txnId) \o ValidateTransaction(q.body)
    ELSE ValidateTransaction(q.body)

\* C13: a request that has passed verifyToken and its role gate and violates one
\* or more validation rules of its endpoint is answered 400 VALIDATION_ERROR
\* with details that list every violation, and ends before its handler.
C13_EveryViolationListed ==
  [][\A r \in Slots :
       (/\ Arrives(r)
        /\ req'[r].op \in {"POST /transactions", "PUT /transactions/:id"}
        /\ req'[r].user.role \in {"administrador", "gerente"}
        /\ RulesViolated(req'[r]) # <<>>)
       => /\ EndsWith(r, 400, "VALIDATION_ERROR")
          /\ req'[r].details = RulesViolated(req'[r])
    ]_vars

(***************************************************************************)
(* Properties of the query builders.                                       *)
(***************************************************************************)
\* the positions of the entries of the call whose value is none of `skipped`
KeptPositions(skipped) == {i \in DOMAIN call.entries : call.entries[i].value \notin skipped}

\* the n-th of a set of positions, in increasing order
NthOf(positions, n) ==
  CHOOSE i \in positions : Cardinality({j \in positions : j <= i}) = n

\* C14: buildUpdateQuery throws 400 NO_UPDATE_FIELDS when no key of updates has
\* a value other than undefined; otherwise its SET list holds exactly the keys
\* whose value is not undefined, in the order of the keys, followed by the touch
\* of updated_at, and its params are the values of those keys followed by
\* whereParams.
C14_UpdateQuery ==
  (call.fn = "buildUpdateQuery" /\ call.returned) =>
    LET defined == KeptPositions({Undef})
        result == call.result
    IN IF defined = {}
         THEN result.err.statusCode = 400 /\ result.err.code = "NO_UPDATE_FIELDS"
         ELSE /\ result.err = NoError
              /\ result.query.update = call.table
              /\ Len(result.query.set) = Cardinality(defined)
              /\ \A n \in 1..Cardinality(defined) :
                   result.query.set[n] = <<call.entries[NthOf(defined, n)].key, "= ?">>
              /\ result.query.touch = "updated_at = NOW()"
              /\ result.query.where = call.where
              /\ Len(result.params) = Cardinality(defined) + Len(call.params)
              /\ \A n \in 1..Cardinality(defined) :
                   result.params[n] = call.entries[NthOf(defined, n)].value
              /\ \A n \in 1..Len(call.params) :
                   result.params[Cardinality(defined) + n] = call.params[n]

\* buildUpdateQuery('profiles', {name: 'A', phone: undefined}, 'id = ?', [id])
\* has returned a query that sets name alone, with the parameters ['A', id]
C14_Witness ==
  /\ call.fn = "buildUpdateQuery" /\ call.returned
  /\ call.entries = <<[key |-> "name", value |-> Text(1)], [key |-> "phone", value |-> Undef]>>
  /\ call.params = <<Uuid(1)>>
  /\ call.result.query.set = <<(<<"name", "= ?">>)>>
  /\ call.result.params = <<Text(1), Uuid(1)>>

\* C15: buildSearchQuery skips the filters whose value is the empty string, null
\* or undefined; of each other filter, in filter order, it makes a LIKE, >= or
\* <= predicate on the key without its ending when the key ends in _like,
\* _date_from or _date_to, and an equality predicate on the key itself
\* otherwise; it attaches the predicates with AND when the base query has a
\* WHERE and with WHERE otherwise; its params are baseParams followed by one
\* value per predicate.
C15_SearchQuery ==
  (call.fn = "buildSearchQuery" /\ call.returned) =>
    LET used == KeptPositions({Undef, Null, EmptyStr})
        result == call.result
        Ending(key) == key[Len(key)]
        Front(key) == SubSeq(key, 1, Len(key) - 1)
    IN /\ Len(result.where) = Cardinality(used)
       /\ \A n \in 1..Cardinality(used) :
            LET key == call.entries[NthOf(used, n)].key IN
              result.where[n] =
                IF Ending(key) = "_like" THEN <<Front(key), "LIKE ?">>
                ELSE IF Ending(key) = "_date_from" THEN <<Front(key), ">= ?">>
                ELSE IF Ending(key) = "_date_to" THEN <<Front(key), "<= ?">>
                ELSE <<key, "= ?">>
       /\ result.link = IF used = {} THEN ""
                        ELSE IF Len(call.base) > 1 THEN "AND" ELSE "WHERE"
       /\ Len(result.params) = Len(call.params) + Cardinality(used)
       /\ \A n \in 1..Len(call.params) : result.params[n].text = call.params[n]
       /\ \A n \in 1..Cardinality(used) :
            result.params[Len(call.params) + n].text = call.entries[NthOf(used, n)].value

(***************************************************************************)
(* Properties of the paginated list.                                       *)
(***************************************************************************)
\* C16: for a valid page and limit, the total of the response is the number of
\* rows matching the filters when they are counted, totalPages is the least
\* number of pages of `limit` rows that hold `total` rows, and the rows returned
\* are those at positions (page - 1) * limit + 1 to page * limit of the matching
\* rows in the default order (by date, then by creation time, latest first), as
\* stored when they are selected.
C16_Pagination ==
  [][\A r \in Slots :
       /\ (req[r].pc = "l_cnt" /\ req'[r].pc = "l_sel")
          => req'[r].pagination.total =
               Cardinality({i \in 1..Len(transactions) :
                              req[r].body.category_id # Undef
                                => transactions[i].category_id = req[r].body.category_id})
       /\ (req[r].pc = "l_sel" /\ req'[r].pc = "done")
          => LET page == IF req[r].body.page = Undef THEN 1 ELSE req[r].body.page.n
                 limit == IF req[r].body.limit = Undef THEN 20 ELSE req[r].body.limit.n
                 answer == req'[r].pagination
                 data == req'[r].data
                 matching == {t \in {transactions[i] : i \in 1..Len(transactions)} :
                                req[r].body.category_id # Undef
                                  => t.category_id = req[r].body.category_id}
                 \* rows that must come before row t, and rows that may
                 Above(t) == {u \in matching :
                                \/ u.date.n > t.date.n
                                \/ u.date.n = t.date.n /\ u.created_at > t.created_at}
                 NotBelow(t) == {u \in matching :
                                   \/ u.date.n > t.date.n
                                   \/ u.date.n = t.date.n /\ u.created_at >= t.created_at}
                 first == (page - 1) * limit + 1
                 last == page * limit
             IN /\ page >= 1 /\ limit >= 1 /\ limit <= 100
                /\ req'[r].status = 200
                /\ answer.page = page /\ answer.limit = limit
                /\ answer.total = req[r].pagination.total
                /\ answer.totalPages * limit >= answer.total
                /\ (answer.totalPages - 1) * limit < answer.total
                /\ answer.totalPages >= 0
                \* as many rows as the positions first..last hold
                /\ Len(data) = Cardinality((first..last) \cap (1..Cardinality(matching)))
                /\ \A k \in DOMAIN data :
                     \E t \in matching :
                       /\ t.id = data[k]
                       \* position first + k - 1 is one the order allows for t
                       /\ Cardinality(Above(t)) < first + k - 1 + 1
                       /\ first + k - 1 <= Cardinality(NotBelow(t))
                /\ \A k1, k2 \in DOMAIN data : k1 # k2 => data[k1] # data[k2]
    ]_vars

\* the second page of two rows over four stored rows was answered: two rows,
\* total 4, totalPages 2; and a page of a filtered list was answered with total 3
C16_Witness ==
  \E r1, r2 \in Slots :
    /\ req[r1].op = "GET /transactions" /\ req[r1].pc = "done" /\ req[r1].status = 200
    /\ req[r1].pagination = [page |-> 2, limit |-> 2, total |-> 4, totalPages |-> 2]
    /\ Len(req[r1].data) = 2
    /\ req[r2].op = "GET /transactions" /\ req[r2].pc = "done" /\ req[r2].status = 200
    /\ req[r2].body.category_id = Uuid(11)
    /\ req[r2].pagination.total = 3 /\ req[r2].pagination.totalPages = 2

(***************************************************************************)
(* Properties of executeTransaction and of the accounts.                   *)
(***************************************************************************)
\* the request in slot r holds the connection executeTransaction acquired
HoldsConnection(r) ==
  req[r].pc \in {"tx_begin", "tx_stmt", "tx_commit", "tx_rollback", "tx_release"}

\* C17: the connections checked out are exactly one for each call of
\* executeTransaction under way, so each call acquires one connection and has
\* released it when it ends, whichever way it ends; a call that ends after
\* beginTransaction, a statement, commit or rollback failed throws an error, and
\* no row its statements inserted is stored then or later.
C17_ConnectionReleasedAndNothingCommitted ==
  /\ [](pool = Cardinality({r \in Slots : HoldsConnection(r)}))
  /\ [][\A r \in Slots :
          (HoldsConnection(r) /\ ~HoldsConnection(r)')
            => /\ pool' = pool - 1
               /\ IF req[r].caught = NoError
                    THEN req'[r].pc = "cu_sel"
                    ELSE /\ req'[r].pc = "done" /\ req'[r].status = 500
                         /\ req'[r].err = req[r].caught.code
       ]_vars
  /\ [](\A r \in Slots :
          (req[r].op = "POST /users" /\ req[r].pc = "done" /\ req[r].status # 201)
            => req[r].current \notin DOMAIN users \cup DOMAIN profiles)

\* one call ended by throwing the error of a failed rollback, another committed
\* its two rows, and no connection is checked out
C17_Witness ==
  \E r1, r2 \in Slots :
    /\ req[r1].op = "POST /users" /\ req[r1].pc = "done" /\ req[r1].err = "ROLLBACK_FAILED"
    /\ req[r2].op = "POST /users" /\ req[r2].pc = "done" /\ req[r2].status = 201
    /\ req[r2].current \in DOMAIN users \cap DOMAIN profiles
    /\ pool = 0

\* C18: whenever no request is being served, the ids of the stored users are the
\* ids of the stored profiles.
C18_UsersMatchProfiles ==
  (\A r \in Slots : req[r].pc \in {"idle", "done"}) => DOMAIN users = DOMAIN profiles

(***************************************************************************)
(* Properties of the receipt files.                                        *)
(***************************************************************************)
\* the receipt_url stored for the transaction the request in slot r names
StoredReceipt(r, table) ==
  {table[i].receipt_url : i \in {j \in 1..Len(table) : table[j].id = req[r].txnId}}

\* in this step the file of the receipt the request read is unlinked, or it stays
\* (it was not there, or the file system refused), and nothing else changes in the
\* uploads directory
BestEffortUnlink(r) ==
  /\ files' \in {files, files \ {FileNameOf(req[r].current)}}
  /\ transactions' = transactions

\* C19: a PUT /transactions/:id whose body carries a non-empty receipt URL
\* other than the non-empty one it read unlinks the old file, or fails to, in a
\* step before its UPDATE and goes on to the UPDATE either way; the UPDATE
\* stores the new URL and the request is answered 200.  A DELETE
\* /transactions/:id does the same with the file of the receipt it read before
\* its DELETE, and is answered 200 either way.
C19_BestEffortFileCleanup ==
  [][\A r \in Slots :
       /\ (req[r].pc = "u_file" /\ req'[r] # req[r])
          => /\ BestEffortUnlink(r)
             /\ req'[r].pc = "u_upd"
             /\ (files' # files) =>
                  /\ Truthy(req[r].current)
                  /\ req[r].body.comprovativo_url # req[r].current
                  /\ req[r].body.comprovativo_url # Undef
       /\ (req[r].pc = "u_upd" /\ req'[r] # req[r])
          => /\ req'[r].pc = "done" /\ req'[r].status = 200
             /\ files' = files
             /\ \A url \in StoredReceipt(r, transactions') :
                  url = IF Truthy(req[r].body.comprovativo_url)
                          THEN req[r].body.comprovativo_url ELSE Null
       /\ (req[r].pc = "d_file" /\ req'[r] # req[r])
          => /\ BestEffortUnlink(r)
             /\ req'[r].pc = "d_del"
       /\ (req[r].pc = "d_del" /\ req'[r] # req[r])
          => /\ req'[r].pc = "done" /\ req'[r].status = 200
             /\ StoredReceipt(r, transactions') = {}
    ]_vars

\* a receipt was replaced and the request answered 200 while the old file
\* stayed in the uploads directory
C19_Witness ==
  \E r \in Slots :
    /\ req[r].op = "PUT /transactions/:id" /\ req[r].pc = "done" /\ req[r].status = 200
    /\ req[r].current = Text(1) /\ req[r].body.comprovativo_url = Text(9)
    /\ StoredReceipt(r, transactions) = {Text(9)}
    /\ 1 \in files

\* C20: on DELETE /transactions/:id/file, a transaction without a receipt is
\* answered 400 NO_FILE_ATTACHED and nothing changes; when the file of the
\* receipt is there and stays there, the request ends 500 FILE_DELETE_ERROR
\* with the table unchanged; the receipt_url is set to NULL only by a request
\* that has passed the unlink step, and that step is passed only with the file
\* gone.
C20_FileRemovalIsFatal ==
  /\ [][\A r \in Slots :
          /\ (req[r].pc = "f_get" /\ req'[r] # req[r])
             => /\ files' = files /\ transactions' = transactions
                /\ IF StoredReceipt(r, transactions) = {}
                     THEN EndsWith(r, 404, "TRANSACTION_NOT_FOUND")
                   ELSE IF \E url \in StoredReceipt(r, transactions) : ~Truthy(url)
                     THEN EndsWith(r, 400, "NO_FILE_ATTACHED")
                   ELSE req'[r].pc = "f_file"
          /\ (req[r].pc = "f_file" /\ req'[r] # req[r])
             => /\ transactions' = transactions
                /\ IF FileNameOf(req[r].current) \in files'
                     THEN /\ EndsWith(r, 500, "FILE_DELETE_ERROR")
                          /\ files' = files
                     ELSE /\ req'[r].pc = "f_upd"
                          /\ files' = files \ {FileNameOf(req[r].current)}
          /\ (req[r].pc = "f_upd" /\ req'[r] # req[r])
             => /\ StoredReceipt(r, transactions') \subseteq {Null}
                /\ files' = files
                /\ req'[r].pc = "done" /\ req'[r].status = 200
          /\ (req[r].op = "DELETE /transactions/:id/file" /\ req[r].pc # "f_upd")
             => \A i \in 1..Len(transactions) :
                  (transactions[i].id = req[r].txnId /\ i <= Len(transactions'))
                    => (transactions'[i] = transactions[i] \/ req'[r] = req[r])
       ]_vars

\* one request ended 500 FILE_DELETE_ERROR with the receipt still stored and its
\* file still there, another ended 400 NO_FILE_ATTACHED
C20_Witness ==
  \E r1, r2 \in Slots :
    /\ req[r1].op = "DELETE /transactions/:id/file" /\ req[r1].pc = "done"
    /\ req[r1].status = 500 /\ req[r1].code = "FILE_DELETE_ERROR"
    /\ StoredReceipt(r1, transactions) = {Text(1)} /\ 1 \in files
    /\ req[r2].op = "DELETE /transactions/:id/file" /\ req[r2].pc = "done"
    /\ req[r2].status = 400 /\ req[r2].code = "NO_FILE_ATTACHED"

\* the files still in the uploads directory after the step that the receipt_url
\* of the transaction named before the step and no longer names after it
FilesLeft(r) ==
  {FileNameOf(url) : url \in {u \in StoredReceipt(r, transactions) : Truthy(u)}
                             \ StoredReceipt(r, transactions')}
  \cap files'

\* the request in slot r has called unlinkSync for the file of the receipt it read
TriedUnlink(r) ==
  /\ Truthy(req[r].current)
  /\ req[r].pc = "u_upd" =>
       /\ req[r].body.comprovativo_url # Undef
       /\ req[r].body.comprovativo_url # req[r].current

\* C21: when an update, a deletion or a receipt removal of a transaction ends
\* 200, a file its receipt_url named before the statement and no longer names
\* after it is left in the uploads directory only if the request tried to unlink
\* that file and the file system refused.
C21_NoFileLeftBehind ==
  [][\A r \in Slots :
       (/\ req[r].pc \in {"u_upd", "d_del", "f_upd"}
        /\ req'[r].pc = "done" /\ req'[r].status = 200)
       => \A f \in FilesLeft(r) : f = FileNameOf(req[r].current) /\ TriedUnlink(r)
    ]_vars

(***************************************************************************)
(* Properties of the upload.                                               *)
(***************************************************************************)
\* C22: an upload whose file part has a type outside the allow-list ends 400
\* INVALID_FILE_TYPE with the uploads directory unchanged; an upload rejected
\* by verifyToken or by requireAdminOrManager ends at its arrival with the
\* directory unchanged; the directory changes only by one new file, written for
\* a request of an identified administrator or manager with an allowed type.
C22_RejectedUploadStoresNothing ==
  [][/\ \A r \in Slots :
          /\ (req[r].pc = "up_file" /\ req'[r] # req[r]
              /\ req[r].body.mimetype \notin AllowedTypes \cup {"undefined"})
             => EndsWith(r, 400, "INVALID_FILE_TYPE") /\ files' = files
          /\ (Arrives(r) /\ req'[r].op = "POST /files/upload"
              /\ (~VerifyToken(req'[r].hdr).ok
                  \/ req'[r].user.role \notin {"administrador", "gerente"}))
             => /\ req'[r].pc = "done" /\ req'[r].status \in {401, 403}
                /\ files' = files
     /\ files' # files =>
          \E r \in Slots :
            /\ req[r].pc = "up_file" /\ req'[r].pc = "up_res"
            /\ req[r].user.role \in {"administrador", "gerente"}
            /\ req[r].body.mimetype \in AllowedTypes
            /\ files \subseteq files' /\ Cardinality(files' \ files) = 1
    ]_vars

\* a text/html upload of a manager ended 400 INVALID_FILE_TYPE, a viewer's upload
\* ended 403, and an allowed upload has been stored
C22_Witness ==
  \E r1, r2 \in Slots :
    /\ req[r1].op = "POST /files/upload" /\ req[r1].body.mimetype = "text/html"
    /\ req[r1].user.role = "gerente" /\ req[r1].pc = "done"
    /\ req[r1].status = 400 /\ req[r1].code = "INVALID_FILE_TYPE"
    /\ req[r2].op = "POST /files/upload" /\ req[r2].pc = "done" /\ req[r2].status = 403
    /\ files # {1, 2}

(***************************************************************************)
(* Properties of the error handler.                                        *)
(***************************************************************************)
\* an error that is no AppError and that errorHandler does not translate
Unexpected(err) ==
  /\ err.statusCode = 0
  /\ err.code \notin {"ER_DUP_ENTRY", "ER_NO_REFERENCED_ROW_2", "ER_PARSE_ERROR",
                      "LIMIT_FILE_SIZE", "LIMIT_UNEXPECTED_FILE"}
  /\ err.name \notin {"JsonWebTokenError", "TokenExpiredError", "ValidationError"}

\* C23: the body sent for an unexpected error is a 500 with the generic message
\* and the generic code; outside development two unexpected errors of the same
\* class get the same body; the body has a stack only in development.
C23_GenericInternalError ==
  call.fn = "res.json" =>
    /\ Unexpected(call.err) =>
         /\ call.body.status = 500
         /\ call.body.code = "INTERNAL_ERROR"
         /\ call.body.error = "Internal Server Error"
    /\ (/\ Unexpected(call.err) /\ Unexpected(call.other)
        /\ call.err.name = call.other.name /\ call.env # "development")
       => call.body = call.otherBody
    /\ call.body.stack # "" => call.env = "development"

(***************************************************************************)
(* Properties of the profile routes.                                       *)
(***************************************************************************)
\* the handler's access check, run for the request in slot r with `writers` the
\* roles let through on PUT beside the owner
ProfileAccess(r, writers) ==
  (req[r].pc \in {"gp_get", "pp_get"} /\ req'[r] # req[r])
  => IF \/ req[r].user.id = req[r].id
        \/ req[r].user.role \in (IF req[r].pc = "gp_get" THEN {"administrador", "gerente"}
                                 ELSE writers)
       THEN ~EndsWith(r, 403, "ACCESS_DENIED")
       ELSE /\ EndsWith(r, 403, "ACCESS_DENIED")
            /\ req'[r].data = <<>>
            /\ profiles' = profiles

\* C24 as stated: GET and PUT /profiles/:id let through exactly the owner, the
\* administrator and the manager; anyone else ends 403 ACCESS_DENIED with the
\* profile neither read nor written.
C24_OwnerOrStaff ==
  [][\A r \in Slots : ProfileAccess(r, {"administrador", "gerente"})]_vars

\* C24 as amended: GET /profiles/:id lets through exactly the owner, the
\* administrator and the manager, PUT /profiles/:id exactly the owner and the
\* administrator; any other identified requester of a request that passed the
\* validators ends 403 ACCESS_DENIED with the profile neither read nor
\* written, and only a request let through reaches the UPDATE.
C24_OwnerOrStaffReadOwnerOrAdminWrite ==
  [][\A r \in Slots :
       /\ ProfileAccess(r, {"administrador"})
       /\ req'[r].pc = "pp_upd"
          => (req'[r].user.id = req'[r].id \/ req'[r].user.role = "administrador")
    ]_vars

\* a manager's update of another user's profile ended 403 ACCESS_DENIED and the
\* manager's read of a profile ended 200
C24_Witness ==
  \E r1, r2 \in Slots :
    /\ req[r1].op = "PUT /profiles/:id" /\ req[r1].user.role = "gerente"
    /\ req[r1].id = Uuid(3) /\ req[r1].pc = "done"
    /\ req[r1].status = 403 /\ req[r1].code = "ACCESS_DENIED"
    /\ req[r2].op = "GET /profiles/:id" /\ req[r2].user.role = "gerente"
    /\ req[r2].pc = "done" /\ req[r2].status = 200 /\ req[r2].data # <<>>

\* the profile without its name and phone
RoleAndRest(row) == [row EXCEPT !.name = "", !.phone = ""]

\* C25: a step that changes the role or the status of a profile, or adds or
\* removes a profile, is a step of a request to the users routes whose
\* requester verifyToken identified as an administrator; a step of a PUT
\* /profiles/:id changes nothing but the name and the phone of the profile it
\* addresses.
C25_RoleAndStatusByAdminOnly ==
  [][/\ (\/ DOMAIN profiles' # DOMAIN profiles
         \/ \E p \in DOMAIN profiles :
              \/ profiles'[p].role # profiles[p].role
              \/ profiles'[p].status # profiles[p].status)
        => \E r \in Slots :
             /\ req'[r] # req[r] /\ req[r].pc \notin {"idle", "done"}
             /\ req[r].op \in UserOps
             /\ req[r].user.role = "administrador"
     /\ \A r \in Slots :
          (req[r].op = "PUT /profiles/:id" /\ req[r].pc \notin {"idle", "done"}
           /\ req'[r] # req[r])
          => /\ DOMAIN profiles' = DOMAIN profiles
             /\ \A p \in DOMAIN profiles :
                  IF p = req[r].id THEN RoleAndRest(profiles'[p]) = RoleAndRest(profiles[p])
                  ELSE profiles'[p] = profiles[p]
             /\ UNCHANGED <<users, categories, subcategories, transactions, files>>
    ]_vars

\* a viewer whose body asked for the role of administrator got the new name
\* and kept the role
C25_Witness ==
  \E r \in Slots :
    /\ req[r].op = "PUT /profiles/:id" /\ req[r].user.id = Uuid(3)
    /\ req[r].body.role = "administrador"
    /\ req[r].pc = "done" /\ req[r].status = 200
    /\ Uuid(3) \in DOMAIN profiles
    /\ profiles[Uuid(3)].name = "Eva M" /\ profiles[Uuid(3)].role = "visualizador"

(***************************************************************************)
(* Properties of refresh and change-password.                              *)
(***************************************************************************)
\* C26: a refresh without a token ends 400 REFRESH_TOKEN_REQUIRED; with a
\* validly signed, unexpired token of kind access it ends 401
\* INVALID_REFRESH_TOKEN; with one of kind refresh it goes on to the lookup of
\* the user and ends 200 with a new access token and a new refresh token of
\* that user if the user exists with an active profile, 401 USER_NOT_FOUND if
\* not; no other refresh ends with tokens.
C26_RefreshIssuesTokens ==
  [][\A r \in Slots :
       /\ (req[r].pc = "rf_get" /\ req'[r] # req[r])
          => LET tok == req[r].body.refreshToken
                 decoded == JwtVerify(tok, now)
             IN IF tok.form = "empty" THEN EndsWith(r, 400, "REFRESH_TOKEN_REQUIRED")
                ELSE IF decoded.name # "payload" THEN req'[r].status = 401
                ELSE IF decoded.type # "refresh"
                  THEN EndsWith(r, 401, "INVALID_REFRESH_TOKEN")
                ELSE IF ActiveUserRows(decoded.userId) = {}
                  THEN req'[r].pc = "rf_sel" \/ EndsWith(r, 401, "USER_NOT_FOUND")
                ELSE req'[r].pc = "rf_sel" \/ req'[r].status = 200
       /\ (req[r].pc = "rf_sel" /\ req'[r] # req[r])
          => IF ActiveUserRows(req[r].current) = {}
               THEN EndsWith(r, 401, "USER_NOT_FOUND")
               ELSE /\ req'[r].pc = "done" /\ req'[r].status = 200
                    /\ req'[r].token = SignedToken(req[r].current, "access", now + 1)
                    /\ req'[r].refreshToken = SignedToken(req[r].current, "refresh", now + 7)
       /\ (req'[r].op = "POST /auth/refresh" /\ req'[r].status # 200)
          => req'[r].token = EmptyToken /\ req'[r].refreshToken = EmptyToken
    ]_vars

\* C27: a change-password of an identified user whose current password is the
\* stored one goes on to the UPDATE, which stores the hash of the new password
\* for that user alone and ends 200; with another current password it ends 400
\* INVALID_CURRENT_PASSWORD; no step of the endpoint changes another user's
\* hash, and a request that does not end 200 changes none.
C27_PasswordChanged ==
  [][\A r \in Slots :
       /\ (req[r].pc = "cp_get" /\ req'[r] # req[r] /\ req[r].user.id \in DOMAIN users)
          => /\ users' = users
             /\ IF users[req[r].user.id].password_hash = Hash(req[r].body.currentPassword)
                  THEN req'[r].pc = "cp_upd"
                  ELSE EndsWith(r, 400, "INVALID_CURRENT_PASSWORD")
       /\ (req[r].pc = "cp_upd" /\ req'[r] # req[r])
          => /\ req'[r].pc = "done" /\ req'[r].status = 200
             /\ \A u \in DOMAIN users :
                  users'[u] = IF u = req[r].user.id
                                THEN [users[u] EXCEPT
                                        !.password_hash = Hash(req[r].body.newPassword)]
                                ELSE users[u]
    ]_vars

(***************************************************************************)
(* Properties of the bearer token.                                         *)
(***************************************************************************)
\* C28: what verifyToken does with a signed bearer token depends on its expiry
\* and on its user, not on its kind: past its expiry the request ends 401
\* TOKEN_EXPIRED, for a user who is missing or inactive 401 USER_NOT_FOUND, and
\* otherwise the request goes on as that user with the role of the profile,
\* for a refresh token as for an access token.
C28_TokenKindIgnored ==
  [][\A r \in Slots :
       (/\ Arrives(r)
        /\ req'[r].op \notin PublicOps
        /\ req'[r].hdr.scheme = "Bearer"
        /\ req'[r].hdr.token.form = "jwt" /\ req'[r].hdr.token.sigOk)
       => LET tok == req'[r].hdr.token IN
            IF now >= tok.exp THEN EndsWith(r, 401, "TOKEN_EXPIRED")
            ELSE IF \/ tok.userId \notin DOMAIN users \cap DOMAIN profiles
                    \/ profiles[tok.userId].status # 1
              THEN EndsWith(r, 401, "USER_NOT_FOUND")
            ELSE /\ req'[r].user = [id |-> tok.userId, role |-> profiles[tok.userId].role]
                 /\ req'[r].status # 401
    ]_vars

\* the administrator's refresh token has deactivated the manager while the
\* access token of the same login is turned away as expired
C28_Witness ==
  \E r1, r2 \in Slots :
    /\ req[r1].op = "DELETE /users/:id/deactivate"
    /\ req[r1].hdr.token = SignedToken(Uuid(1), "refresh", 7)
    /\ req[r1].pc = "done" /\ req[r1].status = 200
    /\ profiles[Uuid(2)].status = 0
    /\ req[r2].hdr.token = SignedToken(Uuid(1), "access", 1)
    /\ req[r2].pc = "done" /\ req[r2].status = 401 /\ req[r2].code = "TOKEN_EXPIRED"

(***************************************************************************)
(* Properties of the identifiers.                                          *)
(***************************************************************************)
\* the fields the validation error of the request names
FieldsRejected(q) == {q.details[i] : i \in 1..Len(q.details)}

\* C29: a POST /transactions or PUT /transactions/:id whose category_id is the
\* id of a category created by POST /categories, or whose subcategory_id is the
\* id of a subcategory created by POST /subcategories, is not turned away by
\* the validators on account of that id.
C29_CreatedIdsAccepted ==
  [][\A r \in Slots :
       (Arrives(r) /\ req'[r].op \in {"POST /transactions", "PUT /transactions/:id"})
       => /\ req'[r].body.category_id \in DOMAIN categories
             => "category_id" \notin FieldsRejected(req'[r])
          /\ req'[r].body.subcategory_id \in DOMAIN subcategories
             => "subcategory_id" \notin FieldsRejected(req'[r])
    ]_vars

(***************************************************************************)
(* Properties of the administration.                                       *)
(***************************************************************************)
\* the accounts verifyToken resolves to an administrator
ActiveAdmins ==
  {u \in DOMAIN users \cap DOMAIN profiles :
     profiles[u].role = "administrador" /\ profiles[u].status = 1}

\* C30: whatever requests to the users routes are made and however they
\* interleave, some account remains that verifyToken resolves to an
\* administrator.
C30_AnActiveAdminRemains == ActiveAdmins # {}

====
